---- MODULE Spec2Model ----
(***************************************************************************)
(* Model of the unified query translation layer of pyapp/dao:              *)
(*   - QueryBuilder (dao/base.py): the relational compiler                 *)
(*   - MySQLDAO (dao/mysql_dao.py): the relational adapter                 *)
(*   - ElasticsearchDAO (dao/elasticsearch_dao.py): the search-engine      *)
(*     compiler and adapter, including scroll_search                       *)
(*                                                                         *)
(* Python values are tagged records, strings are sequences of one-letter   *)
(* strings, SQL text is a sequence of tokens (literal words, field names   *)
(* and numbered placeholders "$k"), and search-engine query documents are  *)
(* records that mirror the nested dictionaries of the source.              *)
(***************************************************************************)
EXTENDS Integers, Sequences, FiniteSets, TLC

VARIABLES
    \* ---- QueryBuilder (dao/base.py) ----
    filters,        \* self.filters
    params,         \* self.params
    sorts,          \* self.sorts
    pagination,     \* self.pagination
    built,          \* the last build_* call of the builder and what it returned or raised
    \* ---- MySQLDAO / ElasticsearchDAO ----
    pool,           \* MySQLDAO.pool
    client,         \* ElasticsearchDAO.client
    call,           \* the last adapter operation: its arguments, its result or error, the requests it sent
    \* ---- ElasticsearchDAO.scroll_search ----
    scroll,         \* the frame of the running scroll_search call and the server's cursor table
    \* ---- the compilers as functions of a request ----
    compiled,       \* the last compilation: its arguments and the query it produced
    \* ---- concurrent MySQLDAO operations on the connection pool ----
    tasks,          \* the number of operations at each point of their code
    pool_used,      \* the number of connections of self.pool that are acquired
    \* ---- MySQLDAO.search against a table that other clients change ----
    table,          \* the rows of the table that satisfy the WHERE clause
    search,         \* the frame of the running MySQLDAO.search call
    \* ---- DatabaseManager (dao/__init__.py) ----
    manager,        \* the fields of db_manager, the settings, and its last call
    \* ---- ServiceRegistry (service/base.py), AgentRegistry (agent/base.py) ----
    registry,       \* the registered services (agents), self._initialized, the last call
    \* ---- MCPServerManager, MCPServiceImplementation (service/mcp_service.py) ----
    mcp,            \* the fields of the server manager and the last call on it
    \* ---- BaseAgent.memory, ToolAgent.tool_history (agent/base.py) ----
    agent           \* the two lists, the number of additions, the last get_* call

vars == <<filters, params, sorts, pagination, built, pool, client, call, scroll, compiled,
          tasks, pool_used, table, search, manager, registry, mcp, agent>>

builderVars == <<filters, params, sorts, pagination, built>>
adapterVars == <<pool, client, call>>
poolVars == <<tasks, pool_used>>

\* The variables of the components outside the query layer
raceVars == <<table, search>>
restVars == <<poolVars, raceVars, manager, registry, mcp, agent>>

---------------------------------------------------------------------------
(* Bounds of the model *)

MaxFilters == 2
MaxSorts == 1
MaxBuilds == 2
MaxRecords == 2
MaxPages == 4
MaxScrollSize == 2
MaxTasks == 12
MaxRows == 3
MaxServices == 3
MaxMessages == 52
MaxToolCalls == 22

---------------------------------------------------------------------------
(* The components outside the query layer before anything has run on them *)

\* No operation has been started
NoTasks == [idle |-> 0, acquire |-> 0, block |-> 0, returned |-> 0, raised |-> 0,
            cancelled |-> 0, failed |-> 0, abandoned |-> 0]

\* No search is running
NoSearch == [pc |-> "idle", offset |-> 0, limit |-> 0, where |-> <<>>, params |-> <<>>,
             count_where |-> <<>>, count_params |-> <<>>, hits |-> <<>>, total |-> 0]

\* DatabaseManager.__init__ (dao: "None", or the state of the adapter's connection)
NewManager(mysql_enable, es_enable) ==
    [mysql_enable |-> mysql_enable, es_enable |-> es_enable,
     mysql_dao |-> "None", elasticsearch_dao |-> "None", connections |-> {},
     op |-> "", value |-> FALSE, dao_type |-> "", error |-> ""]

\* ServiceRegistry.__init__ / AgentRegistry.__init__ (services: per name "absent",
\* or the state of the registered service: "new" or "initialized")
NewRegistry(kind) ==
    [kind |-> kind, services |-> [name \in 1..MaxServices |-> "absent"],
     initialized |-> FALSE, op |-> "", value |-> FALSE]

\* MCPServerManager.__init__ (finally_scope: the block the finally clause of
\* close() belongs to; since_close: close() has returned and no connect_* call
\* has been made since; tool_handlers: the names with a local handler in the
\* MCPServiceImplementation that owns the manager)
NewServerManager(finally_scope) ==
    [finally_scope |-> finally_scope, session |-> "None", available |-> FALSE,
     tool_handlers |-> {}, since_close |-> FALSE, op |-> "", tool_name |-> "",
     local |-> FALSE, success |-> FALSE, message |-> "", server_call |-> FALSE]

\* BaseAgent.__init__ / ToolAgent.__init__: no message, no tool call (a message
\* and a tool call are identified by the number of the call that added them)
NewAgent ==
    [memory |-> <<>>, tool_history |-> <<>>, added |-> 0, called |-> 0,
     op |-> "", k |-> 0, result |-> <<>>]

RestInit ==
    /\ agent = NewAgent
    /\ mcp = NewServerManager("")
    /\ registry = NewRegistry("")
    /\ tasks = NoTasks
    /\ pool_used = 0
    /\ table = {}
    /\ search = NoSearch
    /\ manager = NewManager(FALSE, FALSE)

---------------------------------------------------------------------------
(* Python values *)

NoneV == [t |-> "none", n |-> 0, s |-> <<>>, keys |-> <<>>, items |-> <<>>]
IntV(n) == [t |-> "int", n |-> n, s |-> <<>>, keys |-> <<>>, items |-> <<>>]
FloatV(n) == [t |-> "float", n |-> n, s |-> <<>>, keys |-> <<>>, items |-> <<>>]
StrV(s) == [t |-> "str", n |-> 0, s |-> s, keys |-> <<>>, items |-> <<>>]
ListV(items) == [t |-> "list", n |-> 0, s |-> <<>>, keys |-> <<>>, items |-> items]
DictV(keys, items) == [t |-> "dict", n |-> 0, s |-> <<>>, keys |-> keys, items |-> items]

DigitChars == <<"0", "1", "2", "3", "4", "5", "6", "7", "8", "9">>

IsDigit(c) == \E d \in 1..10 : DigitChars[d] = c

DigitOf(c) == (CHOOSE d \in 1..10 : DigitChars[d] = c) - 1

\* str(n) of a non-negative int
RECURSIVE Digits(_)
Digits(n) == IF n < 10 THEN <<DigitChars[n + 1]>>
             ELSE Digits(n \div 10) \o <<DigitChars[(n % 10) + 1]>>

\* int(s) of a string of decimal digits
RECURSIVE ParseInt(_)
ParseInt(s) == IF Len(s) = 0 THEN 0
               ELSE ParseInt(SubSeq(s, 1, Len(s) - 1)) * 10 + DigitOf(s[Len(s)])

AllDigits(s) == Len(s) > 0 /\ \A i \in 1..Len(s) : IsDigit(s[i])

Contains(s, c) == \E i \in 1..Len(s) : s[i] = c

Quote(s) == <<"'">> \o s \o <<"'">>

\* repr(v) and str(v): what an f-string writes for the value
RECURSIVE PyRepr(_)
RECURSIVE ReprItems(_, _)
RECURSIVE ReprEntries(_, _, _)
ReprItems(items, i) ==
    IF i > Len(items) THEN <<>>
    ELSE (IF i > 1 THEN <<",", " ">> ELSE <<>>) \o PyRepr(items[i]) \o ReprItems(items, i + 1)
ReprEntries(keys, items, i) ==
    IF i > Len(keys) THEN <<>>
    ELSE (IF i > 1 THEN <<",", " ">> ELSE <<>>) \o Quote(keys[i]) \o <<":", " ">>
         \o PyRepr(items[i]) \o ReprEntries(keys, items, i + 1)
PyRepr(v) ==
    CASE v.t = "none" -> <<"N", "o", "n", "e">>
      [] v.t = "int" -> Digits(v.n)
      [] v.t = "float" -> Digits(v.n) \o <<".", "0">>
      [] v.t = "str" -> Quote(v.s)
      [] v.t = "list" -> <<"[">> \o ReprItems(v.items, 1) \o <<"]">>
      [] v.t = "dict" -> <<"{">> \o ReprEntries(v.keys, v.items, 1) \o <<"}">>

PyStr(v) == IF v.t = "str" THEN v.s ELSE PyRepr(v)

\* A variant of IsNumeric, numeric by content: a string of digits counts as a number
IsNumeric_ByContent(v) == v.t \in {"int", "float"} \/ (v.t = "str" /\ AllDigits(v.s))

\* isinstance(value, (int, float))
IsNumeric(v) == v.t \in {"int", "float"}

---------------------------------------------------------------------------
(* The filter / sort / pagination model (dao/base.py) *)

QueryFilter(field, operator, value) == [field |-> field, operator |-> operator, value |-> value]

SortOption(field, direction) == [field |-> field, direction |-> direction]

\* PaginationOptions.max_limit
max_limit == 1000

PaginationOptions(offset, limit) ==
    [none |-> FALSE, offset |-> offset, limit |-> limit, max_limit |-> max_limit]

\* pagination = None
NoPagination == [none |-> TRUE, offset |-> 0, limit |-> 0, max_limit |-> 0]

SupportedOperators == {"eq", "ne", "gt", "lt", "gte", "lte", "like", "in", "not_in"}

ScalarOperators == {"eq", "ne", "gt", "lt", "gte", "lte", "like"}

ListOperators == {"in", "not_in"}

---------------------------------------------------------------------------
(* QueryBuilder (dao/base.py): the relational compiler *)

\* SQL text is a sequence of tokens: a word of the text, the placeholder "$n", or
\* the decimal text of a number
Lit(s) == [k |-> "lit", s |-> s, n |-> 0]
Ph(n) == [k |-> "ph", s |-> "$", n |-> n]
Num(n) == [k |-> "num", s |-> "", n |-> n]

SqlOperator(operator) ==
    CASE operator = "eq" -> "="
      [] operator = "ne" -> "!="
      [] operator = "gt" -> ">"
      [] operator = "lt" -> "<"
      [] operator = "gte" -> ">="
      [] operator = "lte" -> "<="
      [] operator = "like" -> "LIKE"
      [] operator = "in" -> "IN"
      [] operator = "not_in" -> "NOT IN"

\* ', '.join(placeholders), the placeholders being $first .. $(first + n - 1)
RECURSIVE JoinPlaceholders(_, _)
JoinPlaceholders(first, n) ==
    IF n = 0 THEN <<>>
    ELSE IF n = 1 THEN <<Ph(first)>>
    ELSE <<Ph(first), Lit(",")>> \o JoinPlaceholders(first + 1, n - 1)

\* A variant of ScalarParam: the value as it is, for like too
ScalarParam_Unwrapped(filter_obj) == filter_obj.value

\* The parameter a scalar filter appends: the value, or "%value%" for like
ScalarParam(filter_obj) ==
    IF filter_obj.operator = "like"
    THEN StrV(<<"%">> \o PyStr(filter_obj.value) \o <<"%">>)
    ELSE filter_obj.value

\* A variant of ListPlaceholders: the placeholders numbered by len(self.params) before the append
ListPlaceholders_OffByOne(ps, items) == JoinPlaceholders(Len(ps), Len(items))

\* The placeholders of an in / not_in fragment: one per list element, each numbered
\* len(self.params) after its element was appended
ListPlaceholders(ps, items) == JoinPlaceholders(Len(ps) + 1, Len(items))

\* _build_filter_clause with self.params = ps: the fragment, self.params afterwards,
\* and the exception raised ("" when none)
BuildFilterClause(filter_obj, ps) ==
    LET param_placeholder == Ph(Len(ps) + 1) IN
    IF filter_obj.operator \in ScalarOperators
    THEN [clause |-> <<Lit(filter_obj.field), Lit(SqlOperator(filter_obj.operator)),
                       param_placeholder>>,
          params |-> Append(ps, ScalarParam(filter_obj)),
          error |-> ""]
    ELSE IF filter_obj.operator \in ListOperators
    THEN [clause |-> <<Lit(filter_obj.field), Lit(SqlOperator(filter_obj.operator)), Lit("(")>>
                     \o ListPlaceholders(ps, filter_obj.value.items) \o <<Lit(")")>>,
          params |-> ps \o filter_obj.value.items,
          error |-> ""]
    ELSE [clause |-> <<>>, params |-> ps, error |-> "ValueError"]

\* The loop of build_where_clause from filter i on: where_clauses, self.params, error
RECURSIVE WhereLoop(_, _, _, _)
WhereLoop(fs, i, ps, where_clauses) ==
    IF i > Len(fs) THEN [clauses |-> where_clauses, params |-> ps, error |-> ""]
    ELSE LET r == BuildFilterClause(fs[i], ps) IN
         IF r.error # "" THEN [clauses |-> where_clauses, params |-> r.params, error |-> r.error]
         ELSE WhereLoop(fs, i + 1, r.params, Append(where_clauses, r.clause))

\* " AND ".join(where_clauses)
RECURSIVE JoinAnd(_)
JoinAnd(where_clauses) ==
    IF Len(where_clauses) = 0 THEN <<>>
    ELSE IF Len(where_clauses) = 1 THEN where_clauses[1]
    ELSE where_clauses[1] \o <<Lit("AND")>> \o JoinAnd(Tail(where_clauses))

\* A variant of build_where_clause without the early return for no filters
BuildWhereClause_BareWhere(fs, ps) ==
    LET r == WhereLoop(fs, 1, ps, <<>>) IN
    [text |-> IF r.error = "" THEN <<Lit("WHERE")>> \o JoinAnd(r.clauses) ELSE <<>>,
     clauses |-> r.clauses, params |-> r.params, error |-> r.error]

\* A variant of build_where_clause that swallows the exception of a filter and
\* keeps the clauses before it
BuildWhereClause_Swallow(fs, ps) ==
    IF Len(fs) = 0
    THEN [text |-> <<>>, clauses |-> <<>>, params |-> ps, error |-> ""]
    ELSE LET r == WhereLoop(fs, 1, ps, <<>>) IN
         [text |-> <<Lit("WHERE")>> \o JoinAnd(r.clauses),
          clauses |-> r.clauses, params |-> r.params, error |-> ""]

\* build_where_clause with self.filters = fs and self.params = ps
BuildWhereClause(fs, ps) ==
    IF Len(fs) = 0
    THEN [text |-> <<>>, clauses |-> <<>>, params |-> ps, error |-> ""]
    ELSE LET r == WhereLoop(fs, 1, ps, <<>>) IN
         [text |-> IF r.error = "" THEN <<Lit("WHERE")>> \o JoinAnd(r.clauses) ELSE <<>>,
          clauses |-> r.clauses, params |-> r.params, error |-> r.error]

\* str.lower() on the direction words the model uses
Lower(direction) ==
    CASE direction = "ASC" -> "asc"
      [] direction = "DESC" -> "desc"
      [] OTHER -> direction

OrderDirection(direction) == IF Lower(direction) = "asc" THEN "ASC" ELSE "DESC"

RECURSIVE JoinOrder(_)
JoinOrder(ss) ==
    IF Len(ss) = 0 THEN <<>>
    ELSE <<Lit(ss[1].field), Lit(OrderDirection(ss[1].direction))>>
         \o (IF Len(ss) > 1 THEN <<Lit(",")>> \o JoinOrder(Tail(ss)) ELSE <<>>)

\* build_order_clause with self.sorts = ss
BuildOrderClause(ss) ==
    IF Len(ss) = 0 THEN <<>> ELSE <<Lit("ORDER BY")>> \o JoinOrder(ss)

\* A variant of BuildPaginationClause: limit and offset exchanged
BuildPaginationClause_Swapped(p) ==
    IF p.none THEN <<>>
    ELSE <<Lit("LIMIT"), Num(p.offset), Lit("OFFSET"), Num(p.limit)>>

\* build_pagination_clause with self.pagination = p
BuildPaginationClause(p) ==
    IF p.none THEN <<>>
    ELSE <<Lit("LIMIT"), Num(p.limit), Lit("OFFSET"), Num(p.offset)>>


---------------------------------------------------------------------------
(* ElasticsearchDAO (dao/elasticsearch_dao.py): the search-engine compiler *)

\* _is_time_field: the closed set of time fields
time_fields ==
    { "SJSJ", "XJSJ", "RKSJ", "SAVETIME",
      "KDSJ", "ZYRKSJ", "GXSJ", "CJSJ",
      "JZSJ", "TJSJ", "XXSXSJ", "GGSJXXXRKSJ",
      "JSSJ", "KSSJ", "NWRKSJ", "ZDSJ", "QXSJ", "ZYKRKSJ",
      "CCSJ", "JCSJ", "SCSJ", "LDSJ", "RZSJ",
      "HCSJ", "XXRKSJ", "JYSJ", "CSRQ", "CSSJ", "DDSJ",
      "JPSJ", "YDSJ", "LKSJ", "CFSJ", "YDCFSJ", "DDCJSJ", "FKSJ", "TBSJ" }

IsTimeField(field_name) == field_name \in time_fields

\* The position of the first "," of s (0 when there is none)
FirstComma(s) == IF Contains(s, ",") THEN CHOOSE i \in 1..Len(s) :
                                               s[i] = "," /\ \A j \in 1..(i - 1) : s[j] # ","
                 ELSE 0

\* re.match(r'^\d+,\d+$', value): "$" also matches before one trailing newline
MatchesMillisRange(s) ==
    LET body == IF Len(s) > 0 /\ s[Len(s)] = "\n" THEN SubSeq(s, 1, Len(s) - 1) ELSE s
        c == FirstComma(body)
    IN  /\ c > 0
        /\ AllDigits(SubSeq(body, 1, c - 1))
        /\ AllDigits(SubSeq(body, c + 1, Len(body)))

\* int(text) of digits with an optional trailing newline (int() strips whitespace)
PyInt(s) == IF Len(s) > 0 /\ s[Len(s)] = "\n" THEN ParseInt(SubSeq(s, 1, Len(s) - 1))
            ELSE ParseInt(s)

GTE == <<"g", "t", "e">>
LTE == <<"l", "t", "e">>
GT == <<"g", "t">>
LT == <<"l", "t">>

\* _convert_time_value
ConvertTimeValue(value) ==
    IF value.t = "str" /\ Contains(value.s, ",") /\ MatchesMillisRange(value.s)
    THEN LET c == FirstComma(value.s)
             start_ts == SubSeq(value.s, 1, c - 1)
             end_ts == SubSeq(value.s, c + 1, Len(value.s))
         IN  DictV(<<GTE, LTE>>, <<IntV(PyInt(start_ts)), IntV(PyInt(end_ts))>>)
    ELSE value

\* The names bound in the module elasticsearch_dao (its logger imports)
ESLoggerImports == {"LOG_INFO", "LOG_ERROR", "LOG_DEBUG"}

\* A clause of a query document: {kind: {field: value}}, under {bool: {must_not: ...}}
\* when must_not; the value of a range clause is the dictionary {key: value}
ESClause(must_not, kind, field, value) ==
    [must_not |-> must_not, kind |-> kind, field |-> field, value |-> value]

\* The clause that stands for "return None" (no clause)
NoClause == ESClause(FALSE, "None", "", NoneV)

RangeKey(operator) ==
    CASE operator = "gt" -> GT
      [] operator = "lt" -> LT
      [] operator = "gte" -> GTE
      [] operator = "lte" -> LTE

\* The clause of an eq filter on the (time-converted) value
EqClause(field, value) ==
    IF IsNumeric(value) THEN ESClause(FALSE, "term", field, value)
    ELSE ESClause(FALSE, "wildcard", field, StrV(<<"*">> \o PyStr(value) \o <<"*">>))

\* The value the clause is built from: converted when the field is a time field
FilterValue(filter_obj) ==
    IF IsTimeField(filter_obj.field) THEN ConvertTimeValue(filter_obj.value)
    ELSE filter_obj.value

\* The else branch of _build_filter_clause: LOG_WARNING(...) and return None
UnsupportedOperatorBranch ==
    IF "LOG_WARNING" \in ESLoggerImports
    THEN [clause |-> NoClause, error |-> ""]
    ELSE [clause |-> NoClause, error |-> "NameError"]

\* ElasticsearchDAO._build_filter_clause: the clause, or the exception raised
ESBuildFilterClause(filter_obj) ==
    LET field == filter_obj.field
        operator == filter_obj.operator
        value == FilterValue(filter_obj)
    IN  CASE operator = "eq" -> [clause |-> EqClause(field, value), error |-> ""]
          [] operator = "ne" -> [clause |-> ESClause(TRUE, "term", field, value), error |-> ""]
          [] operator \in {"gt", "lt", "gte", "lte"} ->
                [clause |-> ESClause(FALSE, "range", field, DictV(<<RangeKey(operator)>>, <<value>>)),
                 error |-> ""]
          [] operator = "like" ->
                [clause |-> ESClause(FALSE, "wildcard", field, StrV(<<"*">> \o PyStr(value) \o <<"*">>)),
                 error |-> ""]
          [] operator = "in" -> [clause |-> ESClause(FALSE, "terms", field, value), error |-> ""]
          [] operator = "not_in" -> [clause |-> ESClause(TRUE, "terms", field, value), error |-> ""]
          [] OTHER -> UnsupportedOperatorBranch

\* The loop of _build_bool_query from filter i on
RECURSIVE MustLoop(_, _, _)
MustLoop(fs, i, must_clauses) ==
    IF i > Len(fs) THEN [must |-> must_clauses, error |-> ""]
    ELSE LET r == ESBuildFilterClause(fs[i]) IN
         IF r.error # "" THEN [must |-> must_clauses, error |-> r.error]
         ELSE IF r.clause = NoClause THEN MustLoop(fs, i + 1, must_clauses)
         ELSE MustLoop(fs, i + 1, Append(must_clauses, r.clause))

\* A variant of _build_bool_query that keeps the clause of the first filter only
ESBuildBoolQuery_FirstOnly(fs) ==
    IF Len(fs) = 0 THEN [query |-> [kind |-> "match_all", must |-> <<>>], error |-> ""]
    ELSE LET r == MustLoop(fs, 1, <<>>) IN
         [query |-> [kind |-> "bool", must |-> IF Len(r.must) > 0 THEN <<r.must[1]>> ELSE <<>>],
          error |-> r.error]

\* ElasticsearchDAO._build_bool_query
ESBuildBoolQuery(fs) ==
    IF Len(fs) = 0 THEN [query |-> [kind |-> "match_all", must |-> <<>>], error |-> ""]
    ELSE LET r == MustLoop(fs, 1, <<>>) IN
         [query |-> [kind |-> "bool", must |-> r.must], error |-> r.error]

\* The sort list of _build_search_query
ESSortList(sort_options) ==
    [i \in 1..Len(sort_options) |->
        [field |-> sort_options[i].field, order |-> Lower(sort_options[i].direction)]]

ESSize(pg) == IF pg.none THEN 100 ELSE pg.limit

ESFrom(pg) == IF pg.none THEN 0 ELSE pg.offset

\* ElasticsearchDAO._build_search_query; has_from, has_sort: the body has the key
\* 'from', 'sort'; aggs = <<>>: it has no key 'aggs'
ESBuildSearchQuery(fs, sort_options, pg) ==
    LET q == ESBuildBoolQuery(fs) IN
    [body |-> [query |-> q.query, size |-> ESSize(pg), has_from |-> TRUE, from |-> ESFrom(pg),
               has_sort |-> Len(sort_options) > 0, sort |-> ESSortList(sort_options),
               aggs |-> <<>>, agg_field |-> ""],
     error |-> q.error]

\* The five metrics of the aggregation body, in the order of the source
AggMetrics == <<"value_count", "sum", "avg", "min", "max">>

\* A variant of the aggregation body that aggregates over every document
ESBuildAggregateQuery_Unfiltered(fs, agg_field) ==
    [body |-> [query |-> [kind |-> "match_all", must |-> <<>>], size |-> 0,
               has_from |-> FALSE, from |-> 0, has_sort |-> FALSE, sort |-> <<>>,
               aggs |-> AggMetrics, agg_field |-> agg_field],
     error |-> ""]

\* The body ElasticsearchDAO.aggregate builds
ESBuildAggregateQuery(fs, agg_field) ==
    LET q == ESBuildBoolQuery(fs) IN
    [body |-> [query |-> q.query, size |-> 0, has_from |-> FALSE, from |-> 0,
               has_sort |-> FALSE, sort |-> <<>>,
               aggs |-> AggMetrics, agg_field |-> agg_field],
     error |-> q.error]


---------------------------------------------------------------------------
(* Inputs of the QueryBuilder specification *)

BuilderFilters ==
    { QueryFilter("age", "eq", IntV(7)),
      QueryFilter("name", "like", StrV(<<"a", "b">>)),
      QueryFilter("id", "in", ListV(<<IntV(5), StrV(<<"a">>), IntV(3)>>)),
      QueryFilter("id", "not_in", ListV(<<IntV(4), IntV(2)>>)),
      QueryFilter("tag", "in", ListV(<<>>)),
      QueryFilter("SJSJ", "eq", StrV(<<"1", "0", ",", "2", "5">>)),
      QueryFilter("name", "regex", StrV(<<"a", "b">>)) }

BuilderSorts == { SortOption("name", "asc"), SortOption("age", "DESC"), SortOption("age", "down") }

BuilderPages == { <<0, 100>>, <<10, 1001>> }

\* Nothing built yet
\* (before: len(self.params) when the call was entered; builds: build_where_clause
\* calls since the last reset)
NotBuilt == [op |-> "", text |-> <<>>, clauses |-> <<>>, error |-> "", before |-> 0, builds |-> 0]

\* The variables of the adapters and of scroll_search while they are not in use
NoCall == [dao |-> "", op |-> "", outcome |-> "", error |-> "", sent |-> <<>>]
NoScroll ==
    [pc |-> "idle", scroll_size |-> 0, scroll_id |-> 0, hits |-> <<>>, all_hits |-> <<>>,
     fetched |-> 0, pages |-> <<>>, tokens |-> <<>>,
     cursor |-> "none", cleared |-> 0, outcome |-> "", error |-> "", result |-> <<>>]
NotCompiled == [dao |-> "", op |-> "none"]

(* QueryBuilder.reset (also __init__) *)
Reset ==
    /\ filters' = <<>>
    /\ params' = <<>>
    /\ sorts' = <<>>
    /\ pagination' = NoPagination
    /\ built' = NotBuilt
    /\ UNCHANGED <<restVars, adapterVars, scroll, compiled>>

(* QueryBuilder.add_filter *)
AddFilter ==
    /\ Len(filters) < MaxFilters
    /\ \E f \in BuilderFilters : filters' = Append(filters, f)
    /\ UNCHANGED <<restVars, params, sorts, pagination, built, adapterVars, scroll, compiled>>

(* QueryBuilder.add_sort *)
AddSort ==
    /\ Len(sorts) < MaxSorts
    /\ \E so \in BuilderSorts : sorts' = Append(sorts, so)
    /\ UNCHANGED <<restVars, filters, params, pagination, built, adapterVars, scroll, compiled>>

(* QueryBuilder.paginate *)
Paginate ==
    /\ \E pg \in BuilderPages : pagination' = PaginationOptions(pg[1], pg[2])
    /\ UNCHANGED <<restVars, filters, params, sorts, built, adapterVars, scroll, compiled>>

(* QueryBuilder.build_where_clause *)
DoBuildWhere ==
    /\ built.builds < MaxBuilds
    /\ LET r == BuildWhereClause(filters, params) IN
        /\ params' = r.params
        /\ built' = [op |-> "build_where_clause", text |-> r.text, clauses |-> r.clauses,
                     error |-> r.error, before |-> Len(params), builds |-> built.builds + 1]
    /\ UNCHANGED <<restVars, filters, sorts, pagination, adapterVars, scroll, compiled>>

(* QueryBuilder.build_order_clause *)
DoBuildOrder ==
    /\ built' = [op |-> "build_order_clause", text |-> BuildOrderClause(sorts),
                 clauses |-> <<>>, error |-> "", before |-> Len(params), builds |-> built.builds]
    /\ UNCHANGED <<restVars, filters, params, sorts, pagination, adapterVars, scroll, compiled>>

(* QueryBuilder.build_pagination_clause *)
DoBuildPagination ==
    /\ built' = [op |-> "build_pagination_clause", text |-> BuildPaginationClause(pagination),
                 clauses |-> <<>>, error |-> "", before |-> Len(params), builds |-> built.builds]
    /\ UNCHANGED <<restVars, filters, params, sorts, pagination, adapterVars, scroll, compiled>>

InitBuilder ==
    /\ filters = <<>>
    /\ params = <<>>
    /\ sorts = <<>>
    /\ pagination = NoPagination
    /\ built = NotBuilt
    /\ pool = "None"
    /\ client = "None"
    /\ call = NoCall
    /\ scroll = NoScroll
    /\ RestInit
    /\ compiled = NotCompiled

NextBuilder ==
    \/ Reset
    \/ AddFilter
    \/ AddSort
    \/ Paginate
    \/ DoBuildWhere
    \/ DoBuildOrder
    \/ DoBuildPagination

SpecBuilder == InitBuilder /\ [][NextBuilder]_vars


---------------------------------------------------------------------------
(* The compilers as functions of one request: what MySQLDAO.search / aggregate and
   ElasticsearchDAO.search / aggregate compile before they call the backend *)

\* The builder calls of MySQLDAO.search: a fresh QueryBuilder, add_filter for every
\* filter, add_sort for every sort option, paginate when pagination is given, then
\* build_where_clause, build_order_clause, build_pagination_clause
MySQLCompileSearch(fs, sort_options, pg) ==
    LET w == BuildWhereClause(fs, <<>>)
        builder_pagination == IF pg.none THEN NoPagination
                              ELSE PaginationOptions(pg.offset, pg.limit)
    IN  [select |-> "*", agg_field |-> "",
         where |-> w.text, clauses |-> w.clauses,
         order |-> IF w.error = "" THEN BuildOrderClause(sort_options) ELSE <<>>,
         page |-> IF w.error = "" THEN BuildPaginationClause(builder_pagination) ELSE <<>>,
         params |-> w.params, error |-> w.error]

\* The COUNT query of MySQLDAO.search: the same where_clause and builder.params
MySQLCountQuery(q) ==
    [select |-> "COUNT(*)", agg_field |-> "", where |-> q.where, clauses |-> q.clauses,
     order |-> <<>>, page |-> <<>>, params |-> q.params, error |-> q.error]

\* The builder calls and the query of MySQLDAO.aggregate
MySQLCompileAggregate(fs, agg_field) ==
    LET w == BuildWhereClause(fs, <<>>) IN
    [select |-> "COUNT, SUM, AVG, MIN, MAX", agg_field |-> agg_field,
     where |-> w.text, clauses |-> w.clauses, order |-> <<>>, page |-> <<>>,
     params |-> w.params, error |-> w.error]

\* The body of a search-engine request that is not compiled (the relational side)
NoBody == [query |-> [kind |-> "", must |-> <<>>], size |-> 0, has_from |-> FALSE, from |-> 0,
           has_sort |-> FALSE, sort |-> <<>>, aggs |-> <<>>, agg_field |-> ""]

\* The relational query that is not compiled (the search-engine side)
NoSql == [select |-> "", agg_field |-> "", where |-> <<>>, clauses |-> <<>>,
          order |-> <<>>, page |-> <<>>, params |-> <<>>, error |-> ""]

Compiled(dao, op, fs, sort_options, pg, agg_field, sql, body, error) ==
    [dao |-> dao, op |-> op, filters |-> fs, sort_options |-> sort_options,
     pagination |-> pg, agg_field |-> agg_field, sql |-> sql, body |-> body, error |-> error]

(* Inputs of the compilers *)

MillisRange == <<"1", "0", ",", "2", "5">>

CompileFilters ==
    { QueryFilter("SJSJ", op, StrV(MillisRange)) : op \in ScalarOperators }
    \cup
    { QueryFilter("name", "eq", StrV(MillisRange)),
      QueryFilter("CSRQ", "eq", StrV(<<"1", ",", "2", ",", "3">>)),
      QueryFilter("CSRQ", "gte", StrV(<<"7", ",", "8", "\n">>)),
      QueryFilter("age", "eq", IntV(7)),
      QueryFilter("score", "eq", FloatV(3)),
      QueryFilter("id_card", "eq", StrV(<<"1", "1", "0">>)),
      QueryFilter("age", "gte", IntV(7)),
      QueryFilter("name", "like", StrV(<<"a", "b">>)),
      QueryFilter("id", "in", ListV(<<IntV(5), StrV(<<"a">>), IntV(3)>>)),
      QueryFilter("id", "not_in", ListV(<<IntV(4), IntV(2)>>)),
      QueryFilter("tag", "in", ListV(<<>>)),
      QueryFilter("name", "regex", StrV(<<"a", "b">>)) }

\* The filter lists of at most n filters
RECURSIVE FilterLists(_, _)
FilterLists(universe, n) ==
    IF n = 0 THEN {<<>>}
    ELSE LET shorter == FilterLists(universe, n - 1) IN
         shorter \cup { Append(l, f) : l \in { x \in shorter : Len(x) = n - 1 }, f \in universe }

CompileSortLists ==
    { <<>>,
      <<SortOption("age", "DESC"), SortOption("name", "asc")>>,
      <<SortOption("age", "down")>> }

CompilePaginations ==
    { NoPagination, PaginationOptions(0, 1), PaginationOptions(10, 1000),
      PaginationOptions(20, 1001) }

AggFields == {"age"}

\* A request that is not compiled yet
Request(fs, sort_options, pg, agg_field) ==
    Compiled("", "", fs, sort_options, pg, agg_field, NoSql, NoBody, "")

(* The compilation of MySQLDAO.search (mysql_dao.py, 215-240) *)
CompileMySQLSearch ==
    /\ compiled.op = ""
    /\ LET q == MySQLCompileSearch(compiled.filters, compiled.sort_options, compiled.pagination) IN
       compiled' = [compiled EXCEPT !.dao = "mysql", !.op = "search", !.sql = q, !.error = q.error]
    /\ UNCHANGED <<restVars, builderVars, adapterVars, scroll>>

(* The compilation of MySQLDAO.aggregate (mysql_dao.py, 267-285) *)
CompileMySQLAggregate ==
    /\ compiled.op = ""
    /\ LET q == MySQLCompileAggregate(compiled.filters, compiled.agg_field) IN
       compiled' = [compiled EXCEPT !.dao = "mysql", !.op = "aggregate", !.sql = q, !.error = q.error]
    /\ UNCHANGED <<restVars, builderVars, adapterVars, scroll>>

(* The compilation of ElasticsearchDAO.search (_build_search_query) *)
CompileESSearch ==
    /\ compiled.op = ""
    /\ LET q == ESBuildSearchQuery(compiled.filters, compiled.sort_options, compiled.pagination) IN
       compiled' = [compiled EXCEPT !.dao = "es", !.op = "search", !.body = q.body, !.error = q.error]
    /\ UNCHANGED <<restVars, builderVars, adapterVars, scroll>>

(* The compilation of ElasticsearchDAO.aggregate (elasticsearch_dao.py, 249-269) *)
CompileESAggregate ==
    /\ compiled.op = ""
    /\ LET q == ESBuildAggregateQuery(compiled.filters, compiled.agg_field) IN
       compiled' = [compiled EXCEPT !.dao = "es", !.op = "aggregate", !.body = q.body, !.error = q.error]
    /\ UNCHANGED <<restVars, builderVars, adapterVars, scroll>>

\* The caller's request: the arguments of search / aggregate
InitCompile ==
    /\ filters = <<>>
    /\ params = <<>>
    /\ sorts = <<>>
    /\ pagination = NoPagination
    /\ built = NotBuilt
    /\ pool = "None"
    /\ client = "None"
    /\ call = NoCall
    /\ scroll = NoScroll
    /\ RestInit
    /\ \E fs \in FilterLists(CompileFilters, MaxFilters), so \in CompileSortLists,
          pg \in CompilePaginations, agg_field \in AggFields :
            compiled = Request(fs, so, pg, agg_field)

NextCompile ==
    \/ CompileMySQLSearch
    \/ CompileMySQLAggregate
    \/ CompileESSearch
    \/ CompileESAggregate

SpecCompile == InitCompile /\ [][NextCompile]_vars


---------------------------------------------------------------------------
(* The adapters: MySQLDAO (dao/mysql_dao.py) and ElasticsearchDAO
   (dao/elasticsearch_dao.py).

   pool is "None" (never created), "open" (create_pool succeeded) or "closed"
   (disconnect closed it; self.pool still refers to it).  client is "None",
   "unverified" (the client object was assigned but info() failed), "open"
   (connect returned True) or "closed" (disconnect closed it; self.client still
   refers to it).

   An operation runs as one action: it records in call its arguments, what it
   returned or raised, and the requests that reached the backend, in order.  The
   backend's answers are inputs.  TakeResult is the caller receiving the result. *)

NoArgs == [filters |-> <<>>, sort_options |-> <<>>, pagination |-> NoPagination,
           agg_field |-> "", records |-> 0]

SearchArgs(fs, so, pg) == [NoArgs EXCEPT !.filters = fs, !.sort_options = so, !.pagination = pg]

AggregateArgs(fs, agg_field) == [NoArgs EXCEPT !.filters = fs, !.agg_field = agg_field]

DataArgs(n) == [NoArgs EXCEPT !.records = n]

\* return value
Returned(dao, op, args, value, sent) ==
    [dao |-> dao, op |-> op, args |-> args, outcome |-> "returned", error |-> "",
     value |-> value, sent |-> sent, answer |-> [t |-> "none"]]

\* raise error
Raised(dao, op, args, error, sent) ==
    [dao |-> dao, op |-> op, args |-> args, outcome |-> "raised", error |-> error,
     value |-> [t |-> "none"], sent |-> sent, answer |-> [t |-> "none"]]

\* The call with the answer the backend gave to its request
WithAnswer(c, a) == [c EXCEPT !.answer = a]

\* The exceptions of the source
NotInitialized == "RuntimeError: not initialized"
BackendError == "backend error"

\* A request that reached the backend
SqlRequest(api, q) == [api |-> api, sql |-> q, body |-> NoBody, n |-> 0]
ESRequest(api, body, n) == [api |-> api, sql |-> NoSql, body |-> body, n |-> n]

\* A raw statement (execute_query / execute_update called directly, insert, update, delete)
RawSql(statement) == [NoSql EXCEPT !.select = statement]

\* self.pool.acquire() ... cursor.execute(): with self.pool = None the attribute
\* access fails; a closed pool refuses to hand out a connection; otherwise the
\* statement reaches the server, which answers or fails (ok)
PoolExecute(pool_state, ok) ==
    CASE pool_state = "None" -> [error |-> "AttributeError", reached |-> FALSE]
      [] pool_state = "closed" -> [error |-> BackendError, reached |-> FALSE]
      [] pool_state = "open" /\ ok -> [error |-> "", reached |-> TRUE]
      [] OTHER -> [error |-> BackendError, reached |-> TRUE]

\* MySQLDAO.execute_query / execute_update: the check of self.pool, then the statement
ExecuteQuery(pool_state, q, ok) ==
    IF pool_state = "None" THEN [error |-> NotInitialized, sent |-> <<>>]
    ELSE LET x == PoolExecute(pool_state, ok) IN
         [error |-> x.error, sent |-> IF x.reached THEN <<SqlRequest("execute", q)>> ELSE <<>>]

\* x or 0
OrZero(v) == IF v.t = "none" \/ (v.t \in {"int", "float"} /\ v.n = 0) THEN IntV(0) ELSE v

\* float(x) of a number
PyFloat(v) == FloatV(v.n)

StatResult(count, sum, average, min, max) ==
    [t |-> "StatResult", count |-> count, sum |-> sum, average |-> average,
     min |-> min, max |-> max]

\* StatResult(): the defaults of the dataclass
DefaultStatResult == StatResult(IntV(0), FloatV(0), FloatV(0), FloatV(0), FloatV(0))

\* MySQLDAO.aggregate: the StatResult of the first row
MySQLStatResult(row) ==
    StatResult(OrZero(row.count), PyFloat(OrZero(row.sum)), PyFloat(OrZero(row.average)),
               PyFloat(OrZero(row.min)), PyFloat(OrZero(row.max)))

SearchResponse(hits, total) == [t |-> "SearchResponse", hits |-> hits, total |-> total, stats |-> <<>>]

(* Inputs of the adapters *)

AdapterFilters ==
    { QueryFilter("age", "eq", IntV(7)),
      QueryFilter("id", "in", ListV(<<IntV(5), IntV(3)>>)),
      QueryFilter("name", "like", StrV(<<"a", "b">>)),
      QueryFilter("name", "regex", StrV(<<"a", "b">>)) }

AdapterSortLists == { <<>>, <<SortOption("age", "DESC")>> }

AdapterPaginations == { NoPagination, PaginationOptions(0, 100), PaginationOptions(20, 1001) }

\* The five values of the backend's answer to an aggregate, as the row of the
\* SQL server or as the 'value' of the five aggregations of the cluster
AggregateAnswer(count, sum, average, min, max) ==
    [t |-> "aggregate", count |-> count, sum |-> sum, average |-> average,
     min |-> min, max |-> max]

\* Nothing matches: count 0 and null for the rest
EmptyAnswer == AggregateAnswer(IntV(0), NoneV, NoneV, NoneV, NoneV)

\* Nothing matches, as the cluster reports it: sum 0.0, null for avg, min, max
EmptySumZeroAnswer == AggregateAnswer(IntV(0), FloatV(0), NoneV, NoneV, NoneV)

AggregateAnswers ==
    { EmptyAnswer, EmptySumZeroAnswer,
      AggregateAnswer(IntV(3), FloatV(90), FloatV(30), FloatV(20), FloatV(40)),
      AggregateAnswer(IntV(1), FloatV(0), FloatV(0), FloatV(0), FloatV(0)) }

\* What the server answers to the page query and the COUNT query of a search
\* (fail: the number of the request that fails, 0 when none does)
SqlSearchAnswers ==
    { [t |-> "search", fail |-> 0, rows |-> <<>>, has_count |-> TRUE, total |-> 0],
      [t |-> "search", fail |-> 0, rows |-> <<1, 2>>, has_count |-> TRUE, total |-> 5],
      [t |-> "search", fail |-> 0, rows |-> <<1>>, has_count |-> FALSE, total |-> 0],
      [t |-> "search", fail |-> 1, rows |-> <<>>, has_count |-> TRUE, total |-> 0],
      [t |-> "search", fail |-> 2, rows |-> <<1, 2>>, has_count |-> TRUE, total |-> 0] }

(* MySQLDAO.connect *)
MySQLConnect ==
    /\ call = NoCall
    /\ \E ok \in BOOLEAN :
        /\ pool' = IF ok THEN "open" ELSE pool
        /\ call' = Returned("mysql", "connect", NoArgs, [t |-> "bool", b |-> ok], <<>>)
    /\ UNCHANGED <<restVars, builderVars, client, scroll, compiled>>

(* MySQLDAO.disconnect: close() and wait_closed() succeed (ok), or one of them
   raises and False is returned, the pool closed or not *)
MySQLDisconnect ==
    /\ call = NoCall
    /\ \E ok \in BOOLEAN, closed \in BOOLEAN :
        /\ ok => closed
        /\ pool' = IF pool # "None" /\ closed THEN "closed" ELSE pool
        /\ call' = Returned("mysql", "disconnect", NoArgs,
                            [t |-> "bool", b |-> (pool = "None" \/ ok)], <<>>)
    /\ UNCHANGED <<restVars, builderVars, client, scroll, compiled>>

(* MySQLDAO.execute_query *)
MySQLExecuteQuery ==
    /\ call = NoCall
    /\ \E ok \in BOOLEAN :
        LET x == ExecuteQuery(pool, RawSql("SELECT"), ok) IN
        call' = IF x.error # "" THEN Raised("mysql", "execute_query", NoArgs, x.error, x.sent)
                ELSE Returned("mysql", "execute_query", NoArgs, [t |-> "rows"], x.sent)
    /\ UNCHANGED <<restVars, builderVars, pool, client, scroll, compiled>>

(* MySQLDAO.execute_update *)
MySQLExecuteUpdate ==
    /\ call = NoCall
    /\ \E ok \in BOOLEAN, affected_rows \in 0..1 :
        LET x == ExecuteQuery(pool, RawSql("UPDATE"), ok) IN
        call' = IF x.error # "" THEN Raised("mysql", "execute_update", NoArgs, x.error, x.sent)
                ELSE Returned("mysql", "execute_update", NoArgs,
                              [t |-> "int", n |-> affected_rows], x.sent)
    /\ UNCHANGED <<restVars, builderVars, pool, client, scroll, compiled>>

\* insert_one / insert_many: "if not data" returns at once; otherwise
\* self.pool.acquire() without a check of self.pool
MySQLInsert(op, n, ok) ==
    IF n = 0 THEN Returned("mysql", op, DataArgs(n), [t |-> "empty"], <<>>)
    ELSE LET x == PoolExecute(pool, ok) IN
         IF x.error # ""
         THEN Raised("mysql", op, DataArgs(n), x.error,
                     IF x.reached THEN <<SqlRequest("execute", RawSql("INSERT"))>> ELSE <<>>)
         ELSE Returned("mysql", op, DataArgs(n), [t |-> "ids", n |-> n],
                       <<SqlRequest("execute", RawSql("INSERT"))>>)

(* MySQLDAO.insert_one *)
MySQLInsertOne ==
    /\ call = NoCall
    /\ \E n \in 0..1, ok \in BOOLEAN : call' = MySQLInsert("insert_one", n, ok)
    /\ UNCHANGED <<restVars, builderVars, pool, client, scroll, compiled>>

(* MySQLDAO.insert_many *)
MySQLInsertMany ==
    /\ call = NoCall
    /\ \E n \in 0..MaxRecords, ok \in BOOLEAN : call' = MySQLInsert("insert_many", n, ok)
    /\ UNCHANGED <<restVars, builderVars, pool, client, scroll, compiled>>

(* MySQLDAO.update_one *)
MySQLUpdateOne ==
    /\ call = NoCall
    /\ \E n \in 0..1, ok \in BOOLEAN, affected_rows \in 0..1 :
        LET x == ExecuteQuery(pool, RawSql("UPDATE"), ok) IN
        call' = IF n = 0
                THEN Returned("mysql", "update_one", DataArgs(n), [t |-> "bool", b |-> FALSE], <<>>)
                ELSE IF x.error # ""
                THEN Raised("mysql", "update_one", DataArgs(n), x.error, x.sent)
                ELSE Returned("mysql", "update_one", DataArgs(n),
                              [t |-> "bool", b |-> affected_rows > 0], x.sent)
    /\ UNCHANGED <<restVars, builderVars, pool, client, scroll, compiled>>

(* MySQLDAO.delete_one *)
MySQLDeleteOne ==
    /\ call = NoCall
    /\ \E ok \in BOOLEAN, affected_rows \in 0..1 :
        LET x == ExecuteQuery(pool, RawSql("DELETE"), ok) IN
        call' = IF x.error # "" THEN Raised("mysql", "delete_one", NoArgs, x.error, x.sent)
                ELSE Returned("mysql", "delete_one", NoArgs,
                              [t |-> "bool", b |-> affected_rows > 0], x.sent)
    /\ UNCHANGED <<restVars, builderVars, pool, client, scroll, compiled>>

\* MySQLDAO.search, q being what the builder calls compile: the page query, the
\* COUNT query, the response
MySQLSearchCall(fs, so, pg, q, answer) ==
    LET args == SearchArgs(fs, so, pg)
        page == ExecuteQuery(pool, q, answer.fail # 1)
        count == ExecuteQuery(pool, MySQLCountQuery(q), answer.fail # 2)
        total == IF answer.has_count THEN answer.total ELSE 0
    IN  IF q.error # "" THEN Raised("mysql", "search", args, q.error, <<>>)
        ELSE IF page.error # "" THEN Raised("mysql", "search", args, page.error, page.sent)
        ELSE IF count.error # ""
        THEN Raised("mysql", "search", args, count.error, page.sent \o count.sent)
        ELSE WithAnswer(Returned("mysql", "search", args, SearchResponse(answer.rows, total),
                                 page.sent \o count.sent), answer)

(* MySQLDAO.search *)
MySQLSearch ==
    /\ call = NoCall
    /\ \E fs \in FilterLists(AdapterFilters, MaxFilters), so \in AdapterSortLists,
          pg \in AdapterPaginations, answer \in SqlSearchAnswers :
            \E q \in {MySQLCompileSearch(fs, so, pg)} :
                call' = MySQLSearchCall(fs, so, pg, q, answer)
    /\ UNCHANGED <<restVars, builderVars, pool, client, scroll, compiled>>

\* MySQLDAO.aggregate, q being what the builder calls compile: the query, the
\* StatResult (has_row: the result is not empty; row: its first row)
MySQLAggregateCall(fs, agg_field, q, ok, has_row, row) ==
    LET args == AggregateArgs(fs, agg_field)
        x == ExecuteQuery(pool, q, ok)
    IN  IF q.error # "" THEN Raised("mysql", "aggregate", args, q.error, <<>>)
        ELSE IF x.error # "" THEN Raised("mysql", "aggregate", args, x.error, x.sent)
        ELSE IF has_row
        THEN WithAnswer(Returned("mysql", "aggregate", args, MySQLStatResult(row), x.sent), row)
        ELSE Returned("mysql", "aggregate", args, DefaultStatResult, x.sent)

(* MySQLDAO.aggregate *)
MySQLAggregate ==
    /\ call = NoCall
    /\ \E fs \in FilterLists(AdapterFilters, MaxFilters), agg_field \in AggFields,
          ok \in BOOLEAN, has_row \in BOOLEAN, row \in AggregateAnswers :
            \E q \in {MySQLCompileAggregate(fs, agg_field)} :
                call' = MySQLAggregateCall(fs, agg_field, q, ok, has_row, row)
    /\ UNCHANGED <<restVars, builderVars, pool, client, scroll, compiled>>

(* The caller receives the result or the exception of the call it awaited *)
TakeResult ==
    /\ call # NoCall
    /\ call' = NoCall
    /\ UNCHANGED <<restVars, builderVars, pool, client, scroll, compiled>>


\* A request through self.client: a closed client refuses it; otherwise it
\* reaches the cluster, which answers or fails (ok)
ClientRequest(client_state, api, body, n, ok) ==
    CASE client_state = "closed" -> [error |-> BackendError, sent |-> <<>>]
      [] ok -> [error |-> "", sent |-> <<ESRequest(api, body, n)>>]
      [] OTHER -> [error |-> BackendError, sent |-> <<ESRequest(api, body, n)>>]

\* The answer without the key 'aggregations': every .get falls back to 0
NoAggregations == AggregateAnswer(IntV(0), IntV(0), IntV(0), IntV(0), IntV(0))

\* int(x) / float(x) of the five values: a TypeError when one of them is None
ESStatResult(aggregations) ==
    IF \E k \in {"count", "sum", "average", "min", "max"} : aggregations[k].t = "none"
    THEN [error |-> "TypeError", value |-> DefaultStatResult]
    ELSE [error |-> "",
          value |-> StatResult(IntV(aggregations.count.n), PyFloat(aggregations.sum),
                               PyFloat(aggregations.average), PyFloat(aggregations.min),
                               PyFloat(aggregations.max))]

\* A hit of the cluster's answer
Hit(id, score, source) == [_id |-> id, _score |-> score, _source |-> source]

\* The keys ElasticsearchDAO.search sets on the source of a hit
ReservedKeys == {"_id", "_score"}

\* A variant in which a key of the source is kept when the hit sets it too
NormalizeHit_SourceWins(hit) ==
    [k \in DOMAIN hit._source \cup ReservedKeys |->
        IF k \in DOMAIN hit._source THEN hit._source[k]
        ELSE IF k = "_id" THEN hit._id ELSE hit._score]

\* ElasticsearchDAO.search: the source of a hit, source['_id'] and
\* source['_score'] assigned from the hit
NormalizeHit(hit) ==
    [k \in DOMAIN hit._source \cup ReservedKeys |->
        IF k = "_id" THEN hit._id
        ELSE IF k = "_score" THEN hit._score
        ELSE hit._source[k]]

NormalizeHits(hits) == [i \in 1..Len(hits) |-> NormalizeHit(hits[i])]

\* What the cluster answers to a search (has_total: the answer has hits.total)
ESSearchAnswers ==
    { [t |-> "search", fail |-> FALSE, hits |-> <<>>, has_total |-> TRUE, total |-> 0],
      [t |-> "search", fail |-> FALSE, hits |-> <<Hit(1, 2, [name |-> "a"]), Hit(2, 1, [name |-> "b", _score |-> 9])>>,
       has_total |-> TRUE, total |-> 5],
      [t |-> "search", fail |-> FALSE, hits |-> <<Hit(1, 1, [name |-> "a"])>>, has_total |-> FALSE, total |-> 0],
      [t |-> "search", fail |-> TRUE, hits |-> <<>>, has_total |-> TRUE, total |-> 0] }

(* ElasticsearchDAO.connect: the client is created and info() answers (ok), or
   False is returned, the client assigned (created) or not *)
ESConnect ==
    /\ call = NoCall
    /\ \E ok \in BOOLEAN, created \in BOOLEAN :
        /\ ok => created
        /\ client' = IF ok THEN "open" ELSE IF created THEN "unverified" ELSE client
        /\ call' = Returned("es", "connect", NoArgs, [t |-> "bool", b |-> ok], <<>>)
    /\ UNCHANGED <<restVars, builderVars, pool, scroll, compiled>>

(* ElasticsearchDAO.disconnect: close() succeeds (ok), or it raises and False is
   returned, the client closed or not *)
ESDisconnect ==
    /\ call = NoCall
    /\ \E ok \in BOOLEAN, closed \in BOOLEAN :
        /\ ok => closed
        /\ client' = IF client # "None" /\ closed THEN "closed" ELSE client
        /\ call' = Returned("es", "disconnect", NoArgs,
                            [t |-> "bool", b |-> (client = "None" \/ ok)], <<>>)
    /\ UNCHANGED <<restVars, builderVars, pool, scroll, compiled>>

(* ElasticsearchDAO.execute_query *)
ESExecuteQuery ==
    /\ call = NoCall
    /\ \E is_json \in BOOLEAN :
        call' = IF client = "None"
                THEN Raised("es", "execute_query", NoArgs, NotInitialized, <<>>)
                ELSE IF is_json
                THEN Raised("es", "execute_query", NoArgs, "NotImplementedError", <<>>)
                ELSE Raised("es", "execute_query", NoArgs, "JSONDecodeError", <<>>)
    /\ UNCHANGED <<restVars, builderVars, pool, client, scroll, compiled>>

(* ElasticsearchDAO.execute_update *)
ESExecuteUpdate ==
    /\ call = NoCall
    /\ call' = Raised("es", "execute_update", NoArgs, "NotImplementedError", <<>>)
    /\ UNCHANGED <<restVars, builderVars, pool, client, scroll, compiled>>

\* insert_one, update_one, delete_one: the check of self.client, then one request
ESWrite(op, api, n, value, ok) ==
    IF client = "None" THEN Raised("es", op, DataArgs(n), NotInitialized, <<>>)
    ELSE LET x == ClientRequest(client, api, NoBody, n, ok) IN
         IF x.error # "" THEN Raised("es", op, DataArgs(n), x.error, x.sent)
         ELSE Returned("es", op, DataArgs(n), value, x.sent)

(* ElasticsearchDAO.insert_one *)
ESInsertOne ==
    /\ call = NoCall
    /\ \E n \in 0..1, ok \in BOOLEAN :
        call' = ESWrite("insert_one", "index", n, [t |-> "ids", n |-> 1], ok)
    /\ UNCHANGED <<restVars, builderVars, pool, client, scroll, compiled>>

\* [f"doc_{i}" for i in range(len(data))]: the i-th identifier is doc_(i - 1)
DocIds(n) == [i \in 1..n |-> i - 1]

\* Exception(f"Bulk insert failed with {len(errors)} errors")
BulkInsertFailed(errors) ==
    "Exception: Bulk insert failed with " \o ToString(errors) \o " errors"

\* A variant of insert_many that returns the identifiers of the documents that
\* were stored
ESInsertManyCall_Partial(n, x, errors) ==
    WithAnswer(IF client = "None"
               THEN Raised("es", "insert_many", DataArgs(n), NotInitialized, <<>>)
               ELSE IF x.error # ""
               THEN Raised("es", "insert_many", DataArgs(n), x.error, x.sent)
               ELSE Returned("es", "insert_many", DataArgs(n),
                             [t |-> "ids", n |-> n - errors, ids |-> DocIds(n - errors)],
                             x.sent),
               [t |-> "bulk", errors |-> errors])

\* ElasticsearchDAO.insert_many, x being the outcome of async_bulk and errors the
\* number of errors it returned: the check of self.client, the bulk request, the
\* exception when errors is not empty, the identifiers
ESInsertManyCall(n, x, errors) ==
    WithAnswer(IF client = "None"
               THEN Raised("es", "insert_many", DataArgs(n), NotInitialized, <<>>)
               ELSE IF x.error # ""
               THEN Raised("es", "insert_many", DataArgs(n), x.error, x.sent)
               ELSE IF errors > 0
               THEN Raised("es", "insert_many", DataArgs(n), BulkInsertFailed(errors), x.sent)
               ELSE Returned("es", "insert_many", DataArgs(n),
                             [t |-> "ids", n |-> n, ids |-> DocIds(n)], x.sent),
               [t |-> "bulk", errors |-> errors])

(* ElasticsearchDAO.insert_many: errors is the number of errors async_bulk
   returns, at most one per document *)
ESInsertMany ==
    /\ call = NoCall
    /\ \E n \in 0..MaxRecords, ok \in BOOLEAN :
        \E errors \in 0..n :
            \E x \in {ClientRequest(client, "bulk", NoBody, n, ok)} :
                call' = ESInsertManyCall(n, x, errors)
    /\ UNCHANGED <<restVars, builderVars, pool, client, scroll, compiled>>

(* ElasticsearchDAO.update_one *)
ESUpdateOne ==
    /\ call = NoCall
    /\ \E n \in 0..1, ok \in BOOLEAN :
        call' = ESWrite("update_one", "update", n, [t |-> "bool", b |-> TRUE], ok)
    /\ UNCHANGED <<restVars, builderVars, pool, client, scroll, compiled>>

(* ElasticsearchDAO.delete_one *)
ESDeleteOne ==
    /\ call = NoCall
    /\ \E ok \in BOOLEAN :
        call' = ESWrite("delete_one", "delete", 0, [t |-> "bool", b |-> TRUE], ok)
    /\ UNCHANGED <<restVars, builderVars, pool, client, scroll, compiled>>

\* ElasticsearchDAO.search, q being what _build_search_query gives: the check,
\* the body, the request, the response
ESSearchCall(fs, so, pg, q, answer) ==
    LET args == SearchArgs(fs, so, pg)
        x == ClientRequest(client, "search", q.body, 0, ~answer.fail)
        total == IF answer.has_total THEN answer.total ELSE 0
    IN  IF client = "None" THEN Raised("es", "search", args, NotInitialized, <<>>)
        ELSE IF q.error # "" THEN Raised("es", "search", args, q.error, <<>>)
        ELSE IF x.error # "" THEN Raised("es", "search", args, x.error, x.sent)
        ELSE WithAnswer(Returned("es", "search", args,
                                 SearchResponse(NormalizeHits(answer.hits), total), x.sent),
                        answer)

(* ElasticsearchDAO.search *)
ESSearch ==
    /\ call = NoCall
    /\ \E fs \in FilterLists(AdapterFilters, MaxFilters), so \in AdapterSortLists,
          pg \in AdapterPaginations, answer \in ESSearchAnswers :
            \E q \in {ESBuildSearchQuery(fs, so, pg)} :
                call' = ESSearchCall(fs, so, pg, q, answer)
    /\ UNCHANGED <<restVars, builderVars, pool, client, scroll, compiled>>

\* ElasticsearchDAO.aggregate, q being the body it builds: the check, the body,
\* the request, the StatResult
\* (has_aggs: the answer has the key 'aggregations'; aggregations: its values)
ESAggregateCall(fs, agg_field, q, ok, has_aggs, aggregations) ==
    LET args == AggregateArgs(fs, agg_field)
        x == ClientRequest(client, "search", q.body, 0, ok)
        answer == IF has_aggs THEN aggregations ELSE NoAggregations
        r == ESStatResult(answer)
    IN  IF client = "None" THEN Raised("es", "aggregate", args, NotInitialized, <<>>)
        ELSE IF q.error # "" THEN Raised("es", "aggregate", args, q.error, <<>>)
        ELSE IF x.error # "" THEN Raised("es", "aggregate", args, x.error, x.sent)
        ELSE IF r.error # ""
        THEN WithAnswer(Raised("es", "aggregate", args, r.error, x.sent), answer)
        ELSE WithAnswer(Returned("es", "aggregate", args, r.value, x.sent), answer)

(* ElasticsearchDAO.aggregate *)
ESAggregate ==
    /\ call = NoCall
    /\ \E fs \in FilterLists(AdapterFilters, MaxFilters), agg_field \in AggFields,
          ok \in BOOLEAN, has_aggs \in BOOLEAN, aggregations \in AggregateAnswers :
            \E q \in {ESBuildAggregateQuery(fs, agg_field)} :
                call' = ESAggregateCall(fs, agg_field, q, ok, has_aggs, aggregations)
    /\ UNCHANGED <<restVars, builderVars, pool, client, scroll, compiled>>

InitAdapter ==
    /\ filters = <<>>
    /\ params = <<>>
    /\ sorts = <<>>
    /\ pagination = NoPagination
    /\ built = NotBuilt
    /\ pool = "None"
    /\ client = "None"
    /\ call = NoCall
    /\ scroll = NoScroll
    /\ RestInit
    /\ compiled = NotCompiled

NextAdapter ==
    \/ MySQLConnect
    \/ MySQLDisconnect
    \/ MySQLExecuteQuery
    \/ MySQLExecuteUpdate
    \/ MySQLInsertOne
    \/ MySQLInsertMany
    \/ MySQLUpdateOne
    \/ MySQLDeleteOne
    \/ MySQLSearch
    \/ MySQLAggregate
    \/ ESConnect
    \/ ESDisconnect
    \/ ESExecuteQuery
    \/ ESExecuteUpdate
    \/ ESInsertOne
    \/ ESInsertMany
    \/ ESUpdateOne
    \/ ESDeleteOne
    \/ ESSearch
    \/ ESAggregate
    \/ TakeResult

SpecAdapter == InitAdapter /\ [][NextAdapter]_vars

---------------------------------------------------------------------------
(* ElasticsearchDAO.scroll_search, one step per await.

   scroll.pc is the await the call is suspended at ("search", "scroll",
   "clear_scroll"), "idle" before the call and "done" after it.  scroll_id is the
   local scroll_id (0 for None), hits and all_hits the locals of the same name,
   scroll_size the argument.  fetched is the number of pages answered, pages the
   pages the cluster answered with, tokens the scroll_id of each client.scroll
   request.  cursor is the server-side scroll context ("none", "open",
   "released"); cleared is the token clear_scroll was called with (0 when it was
   not called). *)

\* The document at position k of the index, as a hit
Doc(k) == Hit(k, 1, [doc |-> k])

\* The page of the n documents that follow the first served ones
Page(served, n) == [i \in 1..n |-> Doc(served + i)]

\* A variant of Sources: the sources from the last hit to the first
Sources_Reversed(all_hits) ==
    [i \in 1..Len(all_hits) |-> all_hits[Len(all_hits) + 1 - i]._source]

\* hit.get('_source', {}) for hit in all_hits
Sources(all_hits) == [i \in 1..Len(all_hits) |-> all_hits[i]._source]

\* The call ends with an exception
ScrollRaise(error) == [scroll EXCEPT !.pc = "done", !.outcome = "raised", !.error = error]

(* scroll_search is called: the check of self.client, then the initial search *)
ScrollSearchCall ==
    /\ scroll.pc = "idle"
    /\ \E scroll_size \in 1..MaxScrollSize :
        scroll' = IF client = "None"
                  THEN [ScrollRaise(NotInitialized) EXCEPT !.scroll_size = scroll_size]
                  ELSE [scroll EXCEPT !.pc = "search", !.scroll_size = scroll_size]
    /\ UNCHANGED <<restVars, builderVars, adapterVars, compiled>>

(* The initial search (size = scroll_size) is answered with a token and a page
   of n documents, or fails *)
ScrollInitialSearch ==
    /\ scroll.pc = "search"
    /\ \E ok \in BOOLEAN, n \in 0..scroll.scroll_size : \E page \in {Page(0, n)} :
        scroll' = IF ~ok \/ client = "closed" THEN ScrollRaise(BackendError)
                  ELSE [scroll EXCEPT !.scroll_id = 1, !.hits = page,
                                      !.all_hits = @ \o page, !.fetched = 1,
                                      !.pages = <<page>>,
                                      !.cursor = "open",
                                      !.pc = IF Len(page) > 0 THEN "scroll"
                                             ELSE "clear_scroll"]
    /\ UNCHANGED <<restVars, builderVars, adapterVars, compiled>>

\* The number of hits in a sequence of pages
RECURSIVE Served(_)
Served(pages) == IF Len(pages) = 0 THEN 0 ELSE Len(pages[1]) + Served(Tail(pages))

(* client.scroll(scroll_id) is answered with the next token and the page of the
   next n documents, or fails; the except clause logs and re-raises *)
ScrollNextPage ==
    /\ scroll.pc = "scroll"
    /\ \E ok \in BOOLEAN, n \in 0..scroll.scroll_size :
       \E page \in {Page(Served(scroll.pages), n)} :
        /\ scroll.fetched + 1 >= MaxPages => (~ok \/ n = 0)
        /\ scroll' = IF ~ok
                     THEN [ScrollRaise(BackendError) EXCEPT
                              !.tokens = Append(@, scroll.scroll_id)]
                     ELSE [scroll EXCEPT !.scroll_id = @ + 1, !.hits = page,
                                         !.all_hits = @ \o page, !.fetched = @ + 1,
                                         !.pages = Append(@, page),
                                         !.tokens = Append(@, scroll.scroll_id),
                                         !.pc = IF Len(page) > 0 THEN "scroll"
                                                ELSE "clear_scroll"]
    /\ UNCHANGED <<restVars, builderVars, adapterVars, compiled>>

(* client.clear_scroll(scroll_id) is answered, or fails; then the return *)
ScrollClear ==
    /\ scroll.pc = "clear_scroll"
    /\ \E ok \in BOOLEAN :
        scroll' = IF ~ok THEN [ScrollRaise(BackendError) EXCEPT !.cleared = scroll.scroll_id]
                  ELSE [scroll EXCEPT !.pc = "done", !.outcome = "returned",
                                      !.cleared = scroll.scroll_id,
                                      !.cursor = "released",
                                      !.result = Sources(scroll.all_hits)]
    /\ UNCHANGED <<restVars, builderVars, adapterVars, compiled>>

(* The task running scroll_search is cancelled while it is suspended at an await:
   asyncio.CancelledError is not an Exception, so it passes the except clause
   (at the await of clear_scroll the call has been made) *)
ScrollCancel ==
    /\ scroll.pc \in {"search", "scroll", "clear_scroll"}
    /\ scroll' = [scroll EXCEPT !.pc = "done", !.outcome = "cancelled",
                                !.error = "CancelledError",
                                !.cleared = IF scroll.pc = "clear_scroll"
                                            THEN scroll.scroll_id ELSE @]
    /\ UNCHANGED <<restVars, builderVars, adapterVars, compiled>>

InitScroll ==
    /\ filters = <<>>
    /\ params = <<>>
    /\ sorts = <<>>
    /\ pagination = NoPagination
    /\ built = NotBuilt
    /\ pool = "None"
    /\ client = "None"
    /\ call = NoCall
    /\ scroll = NoScroll
    /\ RestInit
    /\ compiled = NotCompiled

NextScroll ==
    \/ ESConnect
    \/ ESDisconnect
    \/ TakeResult
    \/ ScrollSearchCall
    \/ ScrollInitialSearch
    \/ ScrollNextPage
    \/ ScrollClear
    \/ ScrollCancel

SpecScroll == InitScroll /\ [][NextScroll]_vars

\* The cluster answers every request the call awaits
ScrollFairness ==
    /\ WF_vars(ScrollInitialSearch)
    /\ WF_vars(ScrollNextPage)
    /\ WF_vars(ScrollClear)

SpecScrollLive == SpecScroll /\ ScrollFairness

---------------------------------------------------------------------------
(* Claims about scroll_search *)

(* C10: when a scroll_search call that obtained a continuation token has ended
   (returned, raised or was cancelled), clear_scroll has been called with the
   latest token. *)
C10_ScrollTokenReleased ==
    (scroll.pc = "done" /\ scroll.scroll_id # 0) => scroll.cleared = scroll.scroll_id

\* The hits of a sequence of pages, in fetch order
RECURSIVE HitsOf(_)
HitsOf(pages) == IF Len(pages) = 0 THEN <<>> ELSE pages[1] \o HitsOf(Tail(pages))

\* The walk so far: one fetch per page, every page before the last one non-empty,
\* the k-th client.scroll made with the token of the k-th answer, the loop left
\* at the first empty page, and the result of a call that returned is the source
\* of every hit of every page, once, in fetch order
ScrollWalk ==
    /\ scroll.fetched = Len(scroll.pages)
    /\ \A k \in 1..(Len(scroll.pages) - 1) : Len(scroll.pages[k]) > 0
    /\ \A k \in 1..Len(scroll.tokens) : scroll.tokens[k] = k
    /\ Len(scroll.pages) > 0 => Len(scroll.tokens) \in {Len(scroll.pages) - 1, Len(scroll.pages)}
    /\ scroll.pc = "scroll" => Len(scroll.pages[Len(scroll.pages)]) > 0
    /\ scroll.pc = "clear_scroll" => Len(scroll.pages[Len(scroll.pages)]) = 0
    /\ scroll.outcome = "returned" =>
          /\ Len(scroll.pages[Len(scroll.pages)]) = 0
          /\ Len(scroll.tokens) = Len(scroll.pages) - 1
          /\ Len(scroll.result) = Len(HitsOf(scroll.pages))
          /\ \A i \in 1..Len(scroll.result) :
                scroll.result[i] = HitsOf(scroll.pages)[i]._source

(* C11: scroll_search makes the initial search, then one client.scroll with the
   latest token per non-empty page until the first empty page; with a cluster
   that answers and in the end returns an empty page, the call ends; the result
   of a call that returned is the source of every hit of every fetched page,
   once, in fetch order. *)
C11_ScrollWalkComplete ==
    /\ []ScrollWalk
    /\ (scroll.pc = "search") ~> (scroll.pc = "done")

\* A call returned after three non-empty pages and the empty one
C11_Witness ==
    /\ scroll.outcome = "returned"
    /\ Len(scroll.pages) = 4
    /\ Len(scroll.result) >= 3

\* The sizes of the pages of a five-document index served two at a time, and
\* the empty page that ends the walk
PagesOfFiveByTwo == <<2, 2, 1, 0>>

\* scroll_size is 2 and the cluster has answered so far as that index does
WalkOverFiveByTwo ==
    /\ scroll.scroll_size = 2
    /\ Len(scroll.pages) \in 1..Len(PagesOfFiveByTwo)
    /\ \A k \in 1..Len(scroll.pages) : Len(scroll.pages[k]) = PagesOfFiveByTwo[k]

(* C12: over a five-document index served in pages of 2, a scroll_search call
   that has ended, whether it returned or was aborted mid-walk, has released
   the cursor; if it returned, its fetches that brought hits are the three
   returning 2, 2 and 1. *)
C12_WalkOfFiveReleasesCursor ==
    (WalkOverFiveByTwo /\ scroll.pc = "done" /\ scroll.outcome \in {"returned", "cancelled"}) =>
        /\ scroll.cleared = scroll.scroll_id
        /\ scroll.outcome = "returned" =>
              /\ Len(scroll.pages) = Len(PagesOfFiveByTwo)
              /\ Len(scroll.result) = 5

---------------------------------------------------------------------------
(* Claims about the adapters *)

\* The data operations of an adapter
DataOperations ==
    {"execute_query", "execute_update", "insert_one", "insert_many", "update_one",
     "delete_one", "search", "aggregate"}

\* The exceptions of the source that report an unsupported operator
UnsupportedOperatorErrors == {"ValueError"}

\* The call had a filter whose operator is outside the closed vocabulary
HasUnsupportedOperator ==
    /\ call # NoCall
    /\ call.op \in {"search", "aggregate"}
    /\ \E i \in 1..Len(call.args.filters) :
          call.args.filters[i].operator \notin SupportedOperators

\* The backend answered the aggregate: nothing matches (count 0, null for avg, min, max)
AnsweredEmpty ==
    /\ call # NoCall
    /\ call.op = "aggregate"
    /\ call.answer \in {EmptyAnswer, EmptySumZeroAnswer}

(* C4: an aggregate whose backend answer reports count 0 and null values returns
   StatResult(count=0, sum=0, average=0, min=0, max=0) on both adapters and does
   not raise. *)
C4_EmptyAggregateIsZero ==
    AnsweredEmpty => (call.outcome = "returned" /\ call.value = DefaultStatResult)

(* C6: a search whose pagination has limit > max_limit is rejected: it raises and
   no request (so no LIMIT / size above max_limit) reaches the backend. *)
C6_LimitAboveMaxRejected ==
    ( /\ call # NoCall
      /\ call.op = "search"
      /\ ~call.args.pagination.none
      /\ call.args.pagination.limit > call.args.pagination.max_limit )
    => (call.outcome = "raised" /\ call.sent = <<>>)

(* C7: a relational search or aggregate with a filter whose operator is outside
   the closed vocabulary raises the unsupported-operator error of the compiler,
   and no query (page, COUNT or aggregate) has been sent to the backend. *)
C7_UnsupportedOperatorFailsBeforeQuery ==
    (HasUnsupportedOperator /\ call.dao = "mysql")
    => ( /\ call.outcome = "raised"
         /\ call.error \in UnsupportedOperatorErrors
         /\ call.sent = <<>> )

\* A relational search was called on an open pool with a supported filter ahead of
\* an unsupported one, and raised
C7_Witness ==
    /\ HasUnsupportedOperator
    /\ call.dao = "mysql"
    /\ call.op = "search"
    /\ pool = "open"
    /\ Len(call.args.filters) = 2
    /\ call.args.filters[1].operator \in SupportedOperators
    /\ call.outcome = "raised"

(* C8: a search-engine search or aggregate on a created client with a filter
   whose operator is outside the closed vocabulary fails with an
   unsupported-operator error before any request is sent. *)
C8_ESUnsupportedOperatorError ==
    (HasUnsupportedOperator /\ call.dao = "es" /\ client # "None")
    => ( /\ call.outcome = "raised"
         /\ call.error \in UnsupportedOperatorErrors
         /\ call.sent = <<>> )

(* C9: a data operation of either adapter called while connect() has never
   succeeded (no pool; no client, or a client whose info() failed) fails with the
   not-connected error and makes no backend call. *)
C9_NotConnectedFailsFast ==
    ( /\ call # NoCall
      /\ call.op \in DataOperations
      /\ \/ call.dao = "mysql" /\ pool = "None"
         \/ call.dao = "es" /\ client \in {"None", "unverified"} )
    => ( /\ call.outcome = "raised"
         /\ call.error = NotInitialized
         /\ call.sent = <<>> )

---------------------------------------------------------------------------
(* Claims about the relational compiler *)

\* The numbers of the placeholders of a fragment, left to right
RECURSIVE PlaceholderNumbers(_)
PlaceholderNumbers(tokens) ==
    IF Len(tokens) = 0 THEN <<>>
    ELSE (IF tokens[1].k = "ph" THEN <<tokens[1].n>> ELSE <<>>) \o PlaceholderNumbers(Tail(tokens))

\* The number of parameters the claims expect a filter to bind
ExpectedParamCount(f) == IF f.operator \in ListOperators THEN Len(f.value.items) ELSE 1

RECURSIVE ExpectedParamsBefore(_, _)
ExpectedParamsBefore(fs, i) ==
    IF i <= 1 THEN 0 ELSE ExpectedParamsBefore(fs, i - 1) + ExpectedParamCount(fs[i - 1])

\* C1: after build_where_clause, the fragment of every in / not_in filter over a
\* list of n elements holds exactly n placeholders; they are the next n parameter
\* positions after the parameters of the filters before it (and of earlier builds),
\* and the parameter at the j-th placeholder is the j-th list element: n parameters
\* were appended for the filter, in list order.
C1_InListPlaceholders ==
    built.op = "build_where_clause" =>
        \A i \in 1..Len(built.clauses) :
            filters[i].operator \in ListOperators =>
                LET items == filters[i].value.items
                    phs == PlaceholderNumbers(built.clauses[i])
                    start == built.before + ExpectedParamsBefore(filters, i)
                IN  /\ Len(phs) = Len(items)
                    /\ Len(params) >= start + Len(items)
                    /\ \A j \in 1..Len(items) :
                        /\ phs[j] = start + j
                        /\ params[phs[j]] = items[j]
                    /\ (i = Len(filters) /\ built.error = "") => Len(params) = start + Len(items)

\* C1 witness: a second build of a builder whose second filter is an in / not_in
\* filter over at least two elements
C1_Witness ==
    /\ built.op = "build_where_clause"
    /\ built.error = ""
    /\ built.before > 0
    /\ Len(built.clauses) = 2
    /\ filters[2].operator \in ListOperators
    /\ Len(filters[2].value.items) >= 2
    /\ filters[1].operator \in ScalarOperators


---------------------------------------------------------------------------
(* Claims about the search-engine compiler and about pagination *)

\* C2: in every query document the search-engine compiler produces, the clause of
\* an eq filter on a field outside the time-field set is {term: {field: value}}
\* when the value is an int or a float, and {wildcard: {field: "*value*"}} when
\* it is a string.
C2_EqTermOrWildcard ==
    (compiled.dao = "es" /\ compiled.op \in {"search", "aggregate"} /\ compiled.error = "") =>
        /\ Len(compiled.filters) > 0 => Len(compiled.body.query.must) = Len(compiled.filters)
        /\ \A i \in 1..Len(compiled.filters) :
            LET f == compiled.filters[i]
                clause == compiled.body.query.must[i]
            IN  (f.operator = "eq" /\ f.field \notin time_fields) =>
                    IF f.value.t \in {"int", "float"}
                    THEN clause = [must_not |-> FALSE, kind |-> "term", field |-> f.field,
                                   value |-> f.value]
                    ELSE /\ f.value.t = "str"
                         /\ clause = [must_not |-> FALSE, kind |-> "wildcard", field |-> f.field,
                                      value |-> StrV(<<"*">> \o f.value.s \o <<"*">>)]

\* C2 witness: a compiled search whose filters are an eq on a number and an eq on a
\* string of digits, both on fields outside the time-field set
C2_Witness ==
    /\ compiled.dao = "es"
    /\ compiled.op = "search"
    /\ compiled.error = ""
    /\ Len(compiled.filters) = 2
    /\ compiled.filters[1] = QueryFilter("age", "eq", IntV(7))
    /\ compiled.filters[2] = QueryFilter("id_card", "eq", StrV(<<"1", "1", "0">>))
    /\ compiled.body.query.must[2].kind = "wildcard"

\* C3 (the claim as stated): a filter on a time field with a scalar operator and the
\* value "10,25" compiles to the range condition {range: {field: {gte: 10, lte: 25}}},
\* and an eq filter with the same literal on a field outside the set keeps the literal.
C3_TimeRangeCompilesToRange ==
    (compiled.dao = "es" /\ compiled.op \in {"search", "aggregate"} /\ compiled.error = "") =>
        \A i \in 1..Len(compiled.filters) :
            LET f == compiled.filters[i]
                clause == compiled.body.query.must[i]
            IN  (f.operator \in ScalarOperators /\ f.value = StrV(MillisRange)) =>
                    IF f.field \in time_fields
                    THEN clause = [must_not |-> FALSE, kind |-> "range", field |-> f.field,
                                   value |-> DictV(<<GTE, LTE>>, <<IntV(10), IntV(25)>>)]
                    ELSE f.operator = "eq" =>
                            clause = [must_not |-> FALSE, kind |-> "wildcard", field |-> f.field,
                                      value |-> StrV(<<"*">> \o MillisRange \o <<"*">>)]

\* C5: for a pagination with offset >= 0 and 1 <= limit <= max_limit, the
\* relational search compiles the clause LIMIT limit OFFSET offset and the
\* search-engine search compiles size = limit and from = offset.
C5_PaginationCompiled ==
    (/\ compiled.op = "search"
     /\ compiled.error = ""
     /\ ~compiled.pagination.none
     /\ compiled.pagination.offset >= 0
     /\ compiled.pagination.limit >= 1
     /\ compiled.pagination.limit <= max_limit) =>
        /\ compiled.dao = "mysql" =>
            compiled.sql.page = << [k |-> "lit", s |-> "LIMIT", n |-> 0],
                                   [k |-> "num", s |-> "", n |-> compiled.pagination.limit],
                                   [k |-> "lit", s |-> "OFFSET", n |-> 0],
                                   [k |-> "num", s |-> "", n |-> compiled.pagination.offset] >>
        /\ compiled.dao = "es" =>
            /\ compiled.body.size = compiled.pagination.limit
            /\ compiled.body.has_from
            /\ compiled.body.from = compiled.pagination.offset

\* C5 witness: a relational search compiled with offset 10 and limit 1000
C5_Witness ==
    /\ compiled.dao = "mysql"
    /\ compiled.op = "search"
    /\ compiled.error = ""
    /\ compiled.pagination = PaginationOptions(10, 1000)
    /\ Len(compiled.sql.page) = 4

---------------------------------------------------------------------------
(* Claims about the composition of filters *)

\* The request has at least one filter and all its operators are supported
SupportedFilters ==
    /\ compiled.op \in {"search", "aggregate"}
    /\ Len(compiled.filters) > 0
    /\ \A i \in 1..Len(compiled.filters) : compiled.filters[i].operator \in SupportedOperators

\* The fragments from the i-th on, each preceded by AND
RECURSIVE AndFrom(_, _)
AndFrom(fragments, i) ==
    IF i > Len(fragments) THEN <<>>
    ELSE <<[k |-> "lit", s |-> "AND", n |-> 0]>> \o fragments[i] \o AndFrom(fragments, i + 1)

\* C13: for a non-empty filter list with supported operators, the relational
\* WHERE clause is WHERE followed by one fragment per filter, in the caller's
\* order, joined with AND and nothing else; the search-engine query is one bool
\* query whose must list has one clause per filter, in the caller's order.
C13_FiltersComposeWithAnd ==
    SupportedFilters =>
        /\ compiled.error = ""
        /\ compiled.dao = "mysql" =>
            /\ Len(compiled.sql.clauses) = Len(compiled.filters)
            /\ \A i \in 1..Len(compiled.filters) :
                /\ Len(compiled.sql.clauses[i]) >= 3
                /\ compiled.sql.clauses[i][1] = [k |-> "lit", s |-> compiled.filters[i].field, n |-> 0]
                /\ compiled.sql.clauses[i][2].k = "lit"
                /\ \A j \in 1..Len(compiled.sql.clauses[i]) :
                      compiled.sql.clauses[i][j].s \notin {"AND", "OR"}
            /\ compiled.sql.where = <<[k |-> "lit", s |-> "WHERE", n |-> 0]>>
                                    \o compiled.sql.clauses[1] \o AndFrom(compiled.sql.clauses, 2)
        /\ compiled.dao = "es" =>
            /\ compiled.body.query.kind = "bool"
            /\ Len(compiled.body.query.must) = Len(compiled.filters)
            /\ \A i \in 1..Len(compiled.filters) :
                /\ compiled.body.query.must[i].field = compiled.filters[i].field
                /\ compiled.body.query.must[i].kind \in {"term", "wildcard", "range", "terms"}
                /\ compiled.body.query.must[i].must_not =
                      (compiled.filters[i].operator \in {"ne", "not_in"})

\* C13 witness: both compilers ran on two filters with different fields
C13_Witness ==
    /\ SupportedFilters
    /\ compiled.dao = "es"
    /\ Len(compiled.filters) = 2
    /\ compiled.filters[1].field # compiled.filters[2].field
    /\ Len(compiled.body.query.must) = 2

---------------------------------------------------------------------------
(* Claims about placeholders and parameters *)

\* The SQL operator the claims expect for a scalar operator
ExpectedSqlOperator(operator) ==
    CASE operator = "eq" -> "="
      [] operator = "ne" -> "!="
      [] operator = "gt" -> ">"
      [] operator = "lt" -> "<"
      [] operator = "gte" -> ">="
      [] operator = "lte" -> "<="
      [] operator = "like" -> "LIKE"
      [] OTHER -> "?"

\* C14: after the one build_where_clause of a relational search or aggregate over
\* filters with supported operators, the placeholders of the clause, left to
\* right, are $1 .. $len(params); the fragment of a scalar filter is the field,
\* the SQL operator of its operator and one placeholder, and the parameter at
\* that placeholder is the filter's value, or %value% for like.
C14_PlaceholdersMatchParams ==
    ( /\ compiled.dao = "mysql"
      /\ compiled.op \in {"search", "aggregate"}
      /\ \A i \in 1..Len(compiled.filters) :
            compiled.filters[i].operator \in SupportedOperators ) =>
        LET phs == PlaceholderNumbers(compiled.sql.where) IN
        /\ compiled.error = ""
        /\ Len(phs) = Len(compiled.sql.params)
        /\ \A k \in 1..Len(phs) : phs[k] = k
        /\ \A i \in 1..Len(compiled.filters) :
            LET f == compiled.filters[i]
                k == ExpectedParamsBefore(compiled.filters, i) + 1
            IN  f.operator \in ScalarOperators =>
                    /\ compiled.sql.clauses[i] =
                          << [k |-> "lit", s |-> f.field, n |-> 0],
                             [k |-> "lit", s |-> ExpectedSqlOperator(f.operator), n |-> 0],
                             [k |-> "ph", s |-> "$", n |-> k] >>
                    /\ compiled.sql.params[k] =
                          IF f.operator = "like"
                          THEN StrV(<<"%">> \o f.value.s \o <<"%">>)
                          ELSE f.value

\* C14 witness: a relational search over an in filter followed by a like filter
C14_Witness ==
    /\ compiled.dao = "mysql"
    /\ compiled.op = "search"
    /\ compiled.error = ""
    /\ Len(compiled.filters) = 2
    /\ compiled.filters[1].operator = "in"
    /\ Len(compiled.filters[1].value.items) = 3
    /\ compiled.filters[2].operator = "like"
    /\ Len(compiled.sql.params) = 4

---------------------------------------------------------------------------
(* Claims about single filters *)

\* C15 (the claim as stated): the relational search over the one filter
\* SJSJ eq "10,25" compiles a range condition on SJSJ with two placeholders
\* bound to the integers 10 and 25, not an equality against the string.
C15_RelationalTimeRange ==
    ( /\ compiled.dao = "mysql"
      /\ compiled.op = "search"
      /\ compiled.filters = <<QueryFilter("SJSJ", "eq", StrV(MillisRange))>> ) =>
        /\ compiled.error = ""
        /\ compiled.sql.params = <<IntV(10), IntV(25)>>
        /\ Len(PlaceholderNumbers(compiled.sql.where)) = 2
        /\ \A j \in 1..Len(compiled.sql.where) : compiled.sql.where[j].s # "="

\* C16 (the claim as stated): the one filter id_card eq "110", a string of
\* digits, compiles on the relational side to WHERE id_card = $1 with the string
\* as the only parameter, and on the search-engine side to the exact-match
\* clause {term: {id_card: "110"}}.
C16_DigitStringExactMatch ==
    ( /\ compiled.op = "search"
      /\ compiled.filters = <<QueryFilter("id_card", "eq", StrV(<<"1", "1", "0">>))>> ) =>
        /\ compiled.error = ""
        /\ compiled.dao = "mysql" =>
            /\ compiled.sql.where = << [k |-> "lit", s |-> "WHERE", n |-> 0],
                                       [k |-> "lit", s |-> "id_card", n |-> 0],
                                       [k |-> "lit", s |-> "=", n |-> 0],
                                       [k |-> "ph", s |-> "$", n |-> 1] >>
            /\ compiled.sql.params = <<StrV(<<"1", "1", "0">>)>>
        /\ compiled.dao = "es" =>
            compiled.body.query.must =
                << [must_not |-> FALSE, kind |-> "term", field |-> "id_card",
                    value |-> StrV(<<"1", "1", "0">>)] >>

\* C17: with an empty filter list the search-engine query of search and of
\* aggregate is {match_all: {}}, and the relational search and aggregate have
\* no WHERE clause and no parameters.
C17_NoFiltersMatchAll ==
    (compiled.op \in {"search", "aggregate"} /\ compiled.filters = <<>>) =>
        /\ compiled.error = ""
        /\ compiled.dao = "es" =>
            compiled.body.query = [kind |-> "match_all", must |-> <<>>]
        /\ compiled.dao = "mysql" =>
            /\ compiled.sql.where = <<>>
            /\ compiled.sql.clauses = <<>>
            /\ compiled.sql.params = <<>>

\* C17 witness: a relational aggregate compiled without filters
C17_Witness ==
    /\ compiled.dao = "mysql"
    /\ compiled.op = "aggregate"
    /\ compiled.filters = <<>>
    /\ compiled.sql.select # ""

---------------------------------------------------------------------------
(* Claims about aggregate against search *)

\* What search compiles for the request of the compiled operation
SearchOfRequest ==
    IF compiled.dao = "mysql"
    THEN LET q == MySQLCompileSearch(compiled.filters, compiled.sort_options,
                                     compiled.pagination)
         IN  [where |-> q.where, params |-> q.params,
              query |-> NoBody.query, error |-> q.error]
    ELSE LET q == ESBuildSearchQuery(compiled.filters, compiled.sort_options,
                                     compiled.pagination)
         IN  [where |-> <<>>, params |-> <<>>, query |-> q.body.query, error |-> q.error]

\* C18: aggregate compiles the filter condition search compiles on the same
\* backend: the relational WHERE text and parameter list are identical, the
\* search-engine query document is identical, and the search-engine aggregation
\* has size 0 and exactly the metrics value_count, sum, avg, min, max over the
\* aggregation field.
C18_AggregateFiltersLikeSearch ==
    compiled.op = "aggregate" =>
        /\ compiled.error = SearchOfRequest.error
        /\ compiled.dao = "mysql" =>
            /\ compiled.sql.where = SearchOfRequest.where
            /\ compiled.sql.params = SearchOfRequest.params
        /\ compiled.dao = "es" =>
            /\ compiled.body.query = SearchOfRequest.query
            /\ compiled.body.size = 0
            /\ compiled.body.aggs = <<"value_count", "sum", "avg", "min", "max">>
            /\ compiled.body.agg_field = compiled.agg_field

\* C18 witness: a search-engine aggregate over two filters that compiled
C18_Witness ==
    /\ compiled.dao = "es"
    /\ compiled.op = "aggregate"
    /\ compiled.error = ""
    /\ Len(compiled.filters) = 2
    /\ Len(compiled.body.query.must) = 2

---------------------------------------------------------------------------
(* Claims about the response of ElasticsearchDAO.search *)

\* C19: ElasticsearchDAO.search returns one field map per raw hit, in the order
\* of the answer; each map has the fields of the hit's source and the keys _id
\* and _score with the values of the hit; total is hits.total.value of the
\* answer, 0 when it is absent; stats is empty.
C19_SearchResponseFromHits ==
    (call.dao = "es" /\ call.op = "search" /\ call.outcome = "returned") =>
        LET raw == call.answer.hits
            got == call.value.hits
        IN  /\ Len(got) = Len(raw)
            /\ \A i \in 1..Len(raw) :
                /\ DOMAIN got[i] = DOMAIN raw[i]._source \cup {"_id", "_score"}
                /\ got[i]._id = raw[i]._id
                /\ got[i]._score = raw[i]._score
                /\ \A k \in DOMAIN raw[i]._source \ {"_id", "_score"} :
                        got[i][k] = raw[i]._source[k]
            /\ call.value.total = (IF call.answer.has_total THEN call.answer.total ELSE 0)
            /\ call.value.stats = <<>>

\* C19 witness: a search that returned two hits of an answer with a total
C19_Witness ==
    /\ call.dao = "es"
    /\ call.op = "search"
    /\ call.outcome = "returned"
    /\ Len(call.value.hits) = 2
    /\ call.value.hits[1]._id = 1
    /\ call.value.hits[2]._id = 2
    /\ call.value.total = 5

\* C19 witness of the absent total: a returned search whose answer had no
\* hits.total
C19_WitnessNoTotal ==
    /\ call.dao = "es"
    /\ call.op = "search"
    /\ call.outcome = "returned"
    /\ ~call.answer.has_total
    /\ call.value.total = 0

---------------------------------------------------------------------------
(* Claims about sorting *)

\* The ORDER BY clause and the sort list of the two backends for the request of
\* the compiled search
RelationalOrderOfRequest ==
    IF compiled.dao = "mysql" THEN compiled.sql.order
    ELSE BuildOrderClause(compiled.sort_options)

SearchEngineSortOfRequest ==
    IF compiled.dao = "es" THEN compiled.body.sort
    ELSE ESSortList(compiled.sort_options)

\* The two backends sort by the i-th option in the same direction
SameDirection(i) ==
    \/ /\ RelationalOrderOfRequest[3 * i] = Lit("ASC")
       /\ SearchEngineSortOfRequest[i].order = "asc"
    \/ /\ RelationalOrderOfRequest[3 * i] = Lit("DESC")
       /\ SearchEngineSortOfRequest[i].order = "desc"

\* C20: for every list of sort options both compilers emit one sort entry per
\* option in the caller's order, asc as ascending and desc as descending on both
\* backends, the two backends never disagree on the direction of an option, and
\* an empty list emits no sort clause.
C20_SortEntriesAgree ==
    (compiled.op = "search" /\ compiled.error = "") =>
        LET so == compiled.sort_options IN
        /\ Len(so) = 0 =>
            /\ RelationalOrderOfRequest = <<>>
            /\ SearchEngineSortOfRequest = <<>>
            /\ compiled.dao = "es" => ~compiled.body.has_sort
        /\ Len(so) > 0 =>
            /\ Len(RelationalOrderOfRequest) = 3 * Len(so)
            /\ RelationalOrderOfRequest[1] = Lit("ORDER BY")
            /\ Len(SearchEngineSortOfRequest) = Len(so)
            /\ compiled.dao = "es" => compiled.body.has_sort
        /\ \A i \in 1..Len(so) :
            /\ RelationalOrderOfRequest[3 * i - 1] = Lit(so[i].field)
            /\ SearchEngineSortOfRequest[i].field = so[i].field
            /\ so[i].direction \in {"asc", "ASC"} =>
                    RelationalOrderOfRequest[3 * i] = Lit("ASC")
            /\ so[i].direction \in {"desc", "DESC"} =>
                    RelationalOrderOfRequest[3 * i] = Lit("DESC")
            /\ i > 1 => RelationalOrderOfRequest[3 * i - 2] = Lit(",")
            /\ SameDirection(i)

---------------------------------------------------------------------------
(* Claims about the bulk insert *)

\* The message of the exception for k failed documents
BulkFailureMessage(k) ==
    CASE k = 1 -> "Exception: Bulk insert failed with 1 errors"
      [] k = 2 -> "Exception: Bulk insert failed with 2 errors"
      [] k = 3 -> "Exception: Bulk insert failed with 3 errors"
      [] OTHER -> "Exception: Bulk insert failed"

\* C21: ElasticsearchDAO.insert_many never reports partial success: when the
\* bulk call reports failed documents, the call raises one exception that
\* carries their number and returns no identifiers; when it returns, it returns
\* one identifier per input record, in input order.
C21_BulkInsertAllOrNothing ==
    (call.dao = "es" /\ call.op = "insert_many") =>
        /\ (call.sent # <<>> /\ call.error # BackendError /\ call.answer.errors > 0) =>
            /\ call.outcome = "raised"
            /\ call.error = BulkFailureMessage(call.answer.errors)
            /\ call.value = [t |-> "none"]
        /\ call.outcome = "raised" => call.value = [t |-> "none"]
        /\ call.outcome = "returned" =>
            /\ call.answer.errors = 0
            /\ Len(call.value.ids) = call.args.records
            /\ \A i \in 1..call.args.records : call.value.ids[i] = i - 1

\* C21 witness: a bulk insert of two records of which one failed has raised
C21_Witness ==
    /\ call.dao = "es"
    /\ call.op = "insert_many"
    /\ call.args.records = 2
    /\ call.answer.errors = 1
    /\ call.outcome = "raised"
    /\ call.sent # <<>>
    /\ call.error # BackendError

\* C21 witness of the success: a bulk insert of two records has returned
C21_WitnessReturned ==
    /\ call.dao = "es"
    /\ call.op = "insert_many"
    /\ call.args.records = 2
    /\ call.outcome = "returned"
    /\ Len(call.value.ids) = 2

---------------------------------------------------------------------------
(* Concurrent operations of one MySQLDAO on its connection pool.

   Every operation that reaches the database runs one or more blocks
   "async with self.pool.acquire() as conn": execute_query, execute_update,
   insert_one and insert_many one block, update_one and delete_one the block of
   execute_update, search the blocks of two execute_query calls one after the
   other.  The operations are interchangeable, so the state counts them by the
   point of the code they are at:
     idle       not started
     acquire    suspended in self.pool.acquire()
     block      inside the async with block, a connection acquired
     returned   the block was left by return
     raised     the block was left by an exception
     cancelled  the block was left by the cancellation of the task
     failed     an exception before any connection was acquired
     abandoned  cancelled while suspended in self.pool.acquire()            *)

\* maxsize of aiomysql.create_pool
maxsize == 10

\* One operation goes from one point of the code to another
Move(ts, from, to) == [ts EXCEPT ![from] = @ - 1, ![to] = @ + 1]

\* A variant in which the connection stays acquired when the block raises
LeaveBlock_KeepOnRaise(ts, used, to) ==
    [tasks |-> Move(ts, "block", to), used |-> IF to = "raised" THEN used ELSE used - 1]

\* The async with block is left (return, exception or cancellation): __aexit__
\* releases the connection
LeaveBlock(ts, used, to) ==
    [tasks |-> Move(ts, "block", to), used |-> used - 1]

(* MySQLDAO.connect before any operation runs *)
PoolConnect ==
    /\ tasks.idle = MaxTasks
    /\ pool # "open"
    /\ call = NoCall
    /\ \E ok \in BOOLEAN :
        /\ pool' = IF ok THEN "open" ELSE pool
        /\ call' = Returned("mysql", "connect", NoArgs, [t |-> "bool", b |-> ok], <<>>)
    /\ UNCHANGED <<agent, mcp, registry, manager, raceVars, builderVars, client, scroll, compiled, poolVars>>

(* An operation starts: without a pool it raises (the RuntimeError of
   execute_query / execute_update, the AttributeError of insert_one /
   insert_many), with one it calls self.pool.acquire() *)
TaskStart ==
    /\ call = NoCall
    /\ tasks.idle > 0
    /\ tasks' = Move(tasks, "idle", IF pool = "open" THEN "acquire" ELSE "failed")
    /\ UNCHANGED <<agent, mcp, registry, manager, raceVars, builderVars, adapterVars, scroll, compiled, pool_used>>

(* self.pool.acquire() returns a connection: only when fewer than maxsize are
   acquired *)
TaskAcquire ==
    /\ tasks.acquire > 0
    /\ pool_used < maxsize
    /\ tasks' = Move(tasks, "acquire", "block")
    /\ pool_used' = pool_used + 1
    /\ UNCHANGED <<agent, mcp, registry, manager, raceVars, builderVars, adapterVars, scroll, compiled>>

(* self.pool.acquire() raises: the pool could not open a new connection *)
TaskAcquireFail ==
    /\ tasks.acquire > 0
    /\ pool_used < maxsize
    /\ tasks' = Move(tasks, "acquire", "failed")
    /\ UNCHANGED <<agent, mcp, registry, manager, raceVars, builderVars, adapterVars, scroll, compiled, pool_used>>

(* The task is cancelled while it waits in self.pool.acquire() *)
TaskCancelAcquire ==
    /\ tasks.acquire > 0
    /\ tasks' = Move(tasks, "acquire", "abandoned")
    /\ UNCHANGED <<agent, mcp, registry, manager, raceVars, builderVars, adapterVars, scroll, compiled, pool_used>>

(* The block ends: by return, by an exception of cursor.execute / fetchall that
   "except Exception" logs and re-raises, or by the cancellation of the task *)
TaskLeaveBlock ==
    /\ tasks.block > 0
    /\ \E to \in {"returned", "raised", "cancelled"} :
        \E r \in {LeaveBlock(tasks, pool_used, to)} :
            /\ tasks' = r.tasks
            /\ pool_used' = r.used
    /\ UNCHANGED <<agent, mcp, registry, manager, raceVars, builderVars, adapterVars, scroll, compiled>>

(* MySQLDAO.search after its first execute_query: the block is left and the
   COUNT query calls self.pool.acquire() again *)
TaskNextQuery ==
    /\ tasks.block > 0
    /\ \E r \in {LeaveBlock(tasks, pool_used, "acquire")} :
        /\ tasks' = r.tasks
        /\ pool_used' = r.used
    /\ UNCHANGED <<agent, mcp, registry, manager, raceVars, builderVars, adapterVars, scroll, compiled>>

InitPool ==
    /\ filters = <<>>
    /\ params = <<>>
    /\ sorts = <<>>
    /\ pagination = NoPagination
    /\ built = NotBuilt
    /\ pool = "None"
    /\ client = "None"
    /\ call = NoCall
    /\ scroll = NoScroll
    /\ compiled = NotCompiled
    /\ tasks = [NoTasks EXCEPT !.idle = MaxTasks]
    /\ pool_used = 0
    /\ table = {}
    /\ search = NoSearch
    /\ manager = NewManager(FALSE, FALSE)
    /\ registry = NewRegistry("")
    /\ mcp = NewServerManager("")
    /\ agent = NewAgent

NextPool ==
    \/ PoolConnect
    \/ TakeResult
    \/ TaskStart
    \/ TaskAcquire
    \/ TaskAcquireFail
    \/ TaskCancelAcquire
    \/ TaskLeaveBlock
    \/ TaskNextQuery

SpecPool == InitPool /\ [][NextPool]_vars

---------------------------------------------------------------------------
(* Claims about the connection pool *)

\* An operation that waits for a connection while all are acquired does not fail
WaitsWhenAllHeld ==
    (pool_used = 10 /\ tasks'.acquire < tasks.acquire) =>
        /\ tasks'.failed = tasks.failed
        /\ tasks'.raised = tasks.raised
        /\ tasks'.abandoned = tasks.abandoned + 1

\* C22: in every interleaving of concurrent MySQLDAO operations at most 10
\* connections of the pool are acquired at once, an operation that needs a
\* connection while all are acquired waits and does not fail, and the
\* connections that are acquired are exactly those of the operations inside
\* their block: an operation that returned, raised or was cancelled has given
\* its connection back.
C22_PoolBoundedAndReleased ==
    /\ [](pool_used <= 10 /\ pool_used = tasks.block)
    /\ [][WaitsWhenAllHeld]_vars

\* C22 witness: all connections are acquired, an operation waits, and operations
\* have left their block by an exception and by cancellation
C22_Witness ==
    /\ pool_used = 10
    /\ tasks.block = 10
    /\ tasks.acquire >= 1
    /\ tasks.raised + tasks.cancelled >= 1

---------------------------------------------------------------------------
(* Claims about list filters *)

\* The i-th filter of the request is an in / not_in filter over an empty list
EmptyListFilter(i) ==
    /\ compiled.filters[i].operator \in {"in", "not_in"}
    /\ compiled.filters[i].value.t = "list"
    /\ compiled.filters[i].value.items = <<>>

\* C23: an in / not_in filter with an empty list is rejected and not compiled:
\* the relational compiler never emits field IN () / field NOT IN () and the
\* search-engine compiler never emits a terms clause over an empty list.
C23_EmptyListRejected ==
    (/\ compiled.op \in {"search", "aggregate"}
     /\ \E i \in 1..Len(compiled.filters) : EmptyListFilter(i)) =>
        /\ compiled.error # ""
        /\ \A j \in 1..Len(compiled.sql.clauses) :
                compiled.sql.clauses[j][Len(compiled.sql.clauses[j]) - 1].s # "("
        /\ \A j \in 1..Len(compiled.body.query.must) :
                ~(/\ compiled.body.query.must[j].kind = "terms"
                  /\ compiled.body.query.must[j].value.items = <<>>)

---------------------------------------------------------------------------
(* Claims about the connection state of ElasticsearchDAO *)

\* C24: after a connect() of ElasticsearchDAO that returned False (client
\* "unverified": created, info() failed, no later connect succeeded) and after a
\* disconnect() (client "closed"), search, aggregate, insert, update and delete
\* fail with the not-initialized error and send no request.
C24_FailedConnectStaysNotConnected ==
    (/\ call.dao = "es"
     /\ call.op \in {"search", "aggregate", "insert_one", "insert_many",
                     "update_one", "delete_one"}
     /\ client \in {"unverified", "closed"}) =>
        /\ call.outcome = "raised"
        /\ call.error = NotInitialized
        /\ call.sent = <<>>

---------------------------------------------------------------------------
(* MySQLDAO.search while other clients insert and delete rows of the table.

   search awaits execute_query twice, first for the page query and then for the
   COUNT query; each runs on a connection of its own with autocommit=True, and
   other clients' statements can commit between the two.  table holds the rows
   that satisfy the WHERE clause of the search, identified by their key.       *)

\* The filter of the search
RaceFilters == <<QueryFilter("age", "gte", IntV(7))>>

\* The rows of a set in the order of their keys
RECURSIVE RowsInOrder(_)
RowsInOrder(rows) ==
    IF rows = {} THEN <<>>
    ELSE LET first == CHOOSE r \in rows : \A o \in rows : r <= o
         IN  <<first>> \o RowsInOrder(rows \ {first})

\* The answer to SELECT * ... LIMIT limit OFFSET offset
PageOfRows(rows, offset, limit) ==
    LET all == RowsInOrder(rows)
        last == IF offset + limit < Len(all) THEN offset + limit ELSE Len(all)
    IN  [i \in 1..(IF last > offset THEN last - offset ELSE 0) |-> all[offset + i]]

\* The answer to SELECT COUNT(*) as total
CountOfRows(rows) == Cardinality(rows)

(* MySQLDAO.search is called: the builder calls and the page query *)
RaceSearchCall ==
    /\ search.pc = "idle"
    /\ \E offset \in 0..1, limit \in 1..2 :
        \E q \in {MySQLCompileSearch(RaceFilters, <<>>, PaginationOptions(offset, limit))} :
            search' = [NoSearch EXCEPT !.pc = "page", !.offset = offset, !.limit = limit,
                                       !.where = q.where, !.params = q.params]
    /\ UNCHANGED <<agent, mcp, registry, manager, builderVars, adapterVars, scroll, compiled, poolVars, table>>

(* results = await self.execute_query(query, builder.params); the COUNT query is
   built from the same where_clause *)
RacePageQuery ==
    /\ search.pc = "page"
    /\ \E c \in {MySQLCountQuery([NoSql EXCEPT !.where = search.where,
                                                !.params = search.params])} :
        search' = [search EXCEPT !.pc = "count",
                                 !.hits = PageOfRows(table, search.offset, search.limit),
                                 !.count_where = c.where, !.count_params = c.params]
    /\ UNCHANGED <<agent, mcp, registry, manager, builderVars, adapterVars, scroll, compiled, poolVars, table>>

(* count_result = await self.execute_query(count_query, builder.params); the
   SearchResponse is returned *)
RaceCountQuery ==
    /\ search.pc = "count"
    /\ search' = [search EXCEPT !.pc = "done", !.total = CountOfRows(table)]
    /\ UNCHANGED <<agent, mcp, registry, manager, builderVars, adapterVars, scroll, compiled, poolVars, table>>

(* The caller takes the SearchResponse *)
RaceTakeResponse ==
    /\ search.pc = "done"
    /\ search' = NoSearch
    /\ UNCHANGED <<agent, mcp, registry, manager, builderVars, adapterVars, scroll, compiled, poolVars, table>>

(* Another client inserts a row that satisfies the WHERE clause *)
RaceInsert ==
    /\ \E r \in (1..MaxRows) \ table : table' = table \cup {r}
    /\ UNCHANGED <<agent, mcp, registry, manager, builderVars, adapterVars, scroll, compiled, poolVars, search>>

(* Another client deletes a row *)
RaceDelete ==
    /\ \E r \in table : table' = table \ {r}
    /\ UNCHANGED <<agent, mcp, registry, manager, builderVars, adapterVars, scroll, compiled, poolVars, search>>

InitRace ==
    /\ filters = <<>>
    /\ params = <<>>
    /\ sorts = <<>>
    /\ pagination = NoPagination
    /\ built = NotBuilt
    /\ pool = "open"
    /\ client = "None"
    /\ call = NoCall
    /\ scroll = NoScroll
    /\ compiled = NotCompiled
    /\ tasks = NoTasks
    /\ pool_used = 0
    /\ table \in SUBSET (1..MaxRows)
    /\ search = NoSearch
    /\ manager = NewManager(FALSE, FALSE)
    /\ registry = NewRegistry("")
    /\ mcp = NewServerManager("")
    /\ agent = NewAgent

NextRace ==
    \/ RaceSearchCall
    \/ RacePageQuery
    \/ RaceCountQuery
    \/ RaceTakeResponse
    \/ RaceInsert
    \/ RaceDelete

SpecRace == InitRace /\ [][NextRace]_vars

---------------------------------------------------------------------------
(* Claims about the total of a search *)

\* C25: MySQLDAO.search issues the page query and the COUNT query with the same
\* WHERE clause and the same parameters, and in every interleaving with
\* concurrent inserts and deletes on the table the total of a SearchResponse is
\* never smaller than the number of its hits.
C25_TotalCoversHits ==
    /\ search.pc \in {"count", "done"} =>
        /\ search.count_where = search.where
        /\ search.count_params = search.params
    /\ search.pc = "done" => search.total >= Len(search.hits)

\* The first half of C25 holds: both queries carry the same WHERE clause and
\* parameters
SameWhereInBothQueries ==
    search.pc \in {"count", "done"} =>
        /\ search.count_where = search.where
        /\ search.count_params = search.params
        /\ Len(search.where) > 0

---------------------------------------------------------------------------
(* Claims about repeated builds *)

\* The step is a second build_where_clause call on the builder, no filter added
\* since the first, which returned a clause
SecondBuildWhere ==
    /\ built.op = "build_where_clause"
    /\ built.error = ""
    /\ Len(filters) > 0
    /\ Len(built.clauses) = Len(filters)
    /\ filters' = filters
    /\ built'.op = "build_where_clause"
    /\ built'.builds = built.builds + 1

\* C26: build_where_clause is repeatable: a second call on the same builder, no
\* filter added in between, returns the clause text of the first call and
\* leaves the parameter list as it was after the first call.
C26_BuildWhereRepeatable ==
    [][SecondBuildWhere => (built'.text = built.text /\ params' = params)]_vars

---------------------------------------------------------------------------
(* DatabaseManager (dao/__init__.py): initialize_all, close_all, get_dao.

   manager.mysql_dao and manager.elasticsearch_dao are "None" or the state of
   the adapter the field refers to: "connected" after a connect() that returned
   True, "not connected" after one that returned False, "closed" after
   disconnect().  manager.connections is the set of keys of self.connections;
   the value of a key is the adapter of the field of the same name.  op, value,
   dao_type and error describe the last call.                                *)

\* How the try block of one backend can end: connect() returned True, connect()
\* returned False (it catches every Exception), or the factory raised
ConnectOutcomes == {"connected", "refused", "raised"}

\* The block of initialize_all for one backend (field: "mysql_dao" or
\* "elasticsearch_dao"): the adapter is created, connect() is awaited and its
\* return value dropped, the adapter is stored in self.connections
InitializeBackend(m, enable, field, outcome) ==
    IF ~enable THEN [m |-> m, success |-> TRUE]
    ELSE IF outcome = "raised" THEN [m |-> m, success |-> FALSE]
    ELSE [m |-> [m EXCEPT ![field] = IF outcome = "connected" THEN "connected"
                                     ELSE "not connected",
                          !.connections = @ \cup {field}],
          success |-> TRUE]

\* The key of self.connections for a field: 'mysql', 'elasticsearch'
ConnectionKey(field) == IF field = "mysql_dao" THEN "mysql" ELSE "elasticsearch"

\* dao_type.lower() of the types the callers pass
LowerType(dao_type) ==
    CASE dao_type = "MySQL" -> "mysql"
      [] dao_type = "ES" -> "es"
      [] OTHER -> dao_type

(* DatabaseManager.initialize_all *)
InitializeAll ==
    /\ \E o1 \in ConnectOutcomes, o2 \in ConnectOutcomes :
        \E r1 \in {InitializeBackend(manager, manager.mysql_enable, "mysql_dao", o1)} :
            \E r2 \in {InitializeBackend(r1.m, manager.es_enable, "elasticsearch_dao", o2)} :
                manager' = [r2.m EXCEPT !.op = "initialize_all",
                                        !.value = r1.success /\ r2.success,
                                        !.dao_type = "", !.error = ""]
    /\ UNCHANGED <<agent, mcp, registry, builderVars, adapterVars, scroll, compiled, poolVars, raceVars>>

(* DatabaseManager.close_all: disconnect() of every registered adapter (it
   returns a bool and raises nothing; closed: the connection was closed), then
   self.connections.clear() *)
CloseAll ==
    /\ manager.op # ""
    /\ \E closed1 \in BOOLEAN, closed2 \in BOOLEAN :
        manager' = [manager EXCEPT
            !.mysql_dao = IF "mysql_dao" \in manager.connections /\ closed1
                          THEN "closed" ELSE @,
            !.elasticsearch_dao = IF "elasticsearch_dao" \in manager.connections /\ closed2
                                  THEN "closed" ELSE @,
            !.connections = {},
            !.op = "close_all", !.value = TRUE, !.dao_type = "", !.error = ""]
    /\ UNCHANGED <<agent, mcp, registry, builderVars, adapterVars, scroll, compiled, poolVars, raceVars>>

(* get_dao(dao_type): db_manager.get_dao, RuntimeError when it gives None *)
GetDao ==
    /\ manager.op # ""
    /\ \E dao_type \in {"mysql", "MySQL", "elasticsearch", "es"} :
        LET found == \E field \in manager.connections :
                        ConnectionKey(field) = LowerType(dao_type)
        IN  manager' = [manager EXCEPT !.op = "get_dao", !.value = found,
                                       !.dao_type = LowerType(dao_type),
                                       !.error = IF found THEN "" ELSE "RuntimeError"]
    /\ UNCHANGED <<agent, mcp, registry, builderVars, adapterVars, scroll, compiled, poolVars, raceVars>>

\* The settings: which backends are enabled
InitManager ==
    /\ filters = <<>>
    /\ params = <<>>
    /\ sorts = <<>>
    /\ pagination = NoPagination
    /\ built = NotBuilt
    /\ pool = "None"
    /\ client = "None"
    /\ call = NoCall
    /\ scroll = NoScroll
    /\ compiled = NotCompiled
    /\ tasks = NoTasks
    /\ pool_used = 0
    /\ table = {}
    /\ search = NoSearch
    /\ \E mysql_enable \in BOOLEAN, es_enable \in BOOLEAN :
        manager = NewManager(mysql_enable, es_enable)
    /\ registry = NewRegistry("")
    /\ mcp = NewServerManager("")
    /\ agent = NewAgent

NextManager ==
    \/ InitializeAll
    \/ CloseAll
    \/ GetDao

SpecManager == InitManager /\ [][NextManager]_vars

---------------------------------------------------------------------------
(* Claims about DatabaseManager *)

\* C27: initialize_all returns True only if connect() succeeded for every
\* enabled backend, and an adapter is in connections (and handed out by get_dao)
\* only if its connection was established.
C27_InitializeAllReportsConnects ==
    /\ (manager.op = "initialize_all" /\ manager.value) =>
        /\ manager.mysql_enable => manager.mysql_dao = "connected"
        /\ manager.es_enable => manager.elasticsearch_dao = "connected"
    /\ manager.op \in {"initialize_all", "get_dao"} =>
        \A field \in manager.connections : manager[field] = "connected"

---------------------------------------------------------------------------
(* ServiceRegistry (service/base.py) and AgentRegistry (agent/base.py).

   The two classes have the same code, with agents for services; registry.kind
   says which one the run is about.  registry.services gives for every name
   "absent" when no service of that name is registered, and otherwise the state
   of the registered one: "new" (its _initialized is False) or "initialized".  *)

\* The registered names
Registered(services) == { name \in DOMAIN services : services[name] # "absent" }

\* The loop of initialize_all: initialize() of every registered service that is
\* not initialized; failing are those whose _on_initialize raises, so that
\* initialize() returns False and leaves _initialized False
InitializeServices(services, failing) ==
    [name \in DOMAIN services |->
        IF services[name] = "new" /\ name \notin failing THEN "initialized"
        ELSE services[name]]

\* The loop of shutdown_all: shutdown() of every registered service that is
\* initialized; failing are those whose _on_shutdown raises
ShutdownServices(services, failing) ==
    [name \in DOMAIN services |->
        IF services[name] = "initialized" /\ name \notin failing THEN "new"
        ELSE services[name]]

(* register_service / register_agent: a new service, under its name *)
RegisterService ==
    /\ \E name \in 1..MaxServices :
        registry' = [registry EXCEPT !.services[name] = "new",
                                     !.op = "register", !.value = TRUE]
    /\ UNCHANGED <<agent, mcp, builderVars, adapterVars, scroll, compiled, poolVars, raceVars, manager>>

(* unregister_service / unregister_agent *)
UnregisterService ==
    /\ \E name \in 1..MaxServices :
        registry' = [registry EXCEPT !.services[name] = "absent",
                                     !.op = "unregister",
                                     !.value = (registry.services[name] # "absent")]
    /\ UNCHANGED <<agent, mcp, builderVars, adapterVars, scroll, compiled, poolVars, raceVars, manager>>

(* initialize_all *)
RegistryInitializeAll ==
    /\ \E failing \in SUBSET { name \in 1..MaxServices : registry.services[name] = "new" } :
        registry' = [registry EXCEPT
            !.services = InitializeServices(registry.services, failing),
            !.initialized = IF failing = {} THEN TRUE ELSE @,
            !.op = "initialize_all", !.value = (failing = {})]
    /\ UNCHANGED <<agent, mcp, builderVars, adapterVars, scroll, compiled, poolVars, raceVars, manager>>

(* shutdown_all *)
RegistryShutdownAll ==
    /\ \E failing \in SUBSET { name \in 1..MaxServices :
                                    registry.services[name] = "initialized" } :
        registry' = [registry EXCEPT
            !.services = ShutdownServices(registry.services, failing),
            !.initialized = IF failing = {} THEN FALSE ELSE @,
            !.op = "shutdown_all", !.value = (failing = {})]
    /\ UNCHANGED <<agent, mcp, builderVars, adapterVars, scroll, compiled, poolVars, raceVars, manager>>

InitRegistry ==
    /\ filters = <<>>
    /\ params = <<>>
    /\ sorts = <<>>
    /\ pagination = NoPagination
    /\ built = NotBuilt
    /\ pool = "None"
    /\ client = "None"
    /\ call = NoCall
    /\ scroll = NoScroll
    /\ compiled = NotCompiled
    /\ tasks = NoTasks
    /\ pool_used = 0
    /\ table = {}
    /\ search = NoSearch
    /\ manager = NewManager(FALSE, FALSE)
    /\ \E kind \in {"ServiceRegistry", "AgentRegistry"} : registry = NewRegistry(kind)
    /\ mcp = NewServerManager("")
    /\ agent = NewAgent

NextRegistry ==
    \/ RegisterService
    \/ UnregisterService
    \/ RegistryInitializeAll
    \/ RegistryShutdownAll

SpecRegistry == InitRegistry /\ [][NextRegistry]_vars

---------------------------------------------------------------------------
(* Claims about the registries *)

\* C28: after any sequence of register, unregister, initialize_all and
\* shutdown_all, also with failures, is_initialized() of the registry is true
\* exactly when every registered service (agent) is initialized.  The formula
\* leaves the registry without services aside.
C28_RegistryFlagMatchesServices ==
    Registered(registry.services) # {} =>
        (registry.initialized <=>
            \A name \in Registered(registry.services) :
                registry.services[name] = "initialized")

---------------------------------------------------------------------------
(* MCPServerManager and MCPServiceImplementation.execute_tool
   (service/mcp_service.py).

   close() as it stands in the source does not parse: its "finally:" (line 89)
   is indented like the "if self.session:" above it, where no try statement is
   open, so that importing the module raises SyntaxError and no manager can be
   created.  The only try statement of the function is the one inside the if.
   mcp.finally_scope names the block the clause is read to belong to:
     "if"        the try inside "if self.session:", the one it follows: the
                 cleanup runs only when a session exists
     "function"  a try around the whole body: the cleanup always runs
   mcp.session is "None" or the state of the ClientSession the field refers to
   ("created": initialize() failed; "initialized"; close() sets the field back
   to None).                                                                 *)

FinallyScopes == {"if", "function"}

\* What an MCPServerManager call leaves: the fields and the description of the call
ManagerCall(m, op, success) ==
    [m EXCEPT !.op = op, !.success = success, !.tool_name = "", !.local = FALSE,
              !.message = "", !.server_call = FALSE]

\* MCPServerManager.close: session.close() (its exception is logged), then the
\* finally clause, which runs when the block it belongs to was entered
CloseServer(m) ==
    IF m.session # "None" \/ m.finally_scope = "function"
    THEN ManagerCall([m EXCEPT !.session = "None", !.available = FALSE,
                               !.since_close = TRUE], "close", TRUE)
    ELSE ManagerCall([m EXCEPT !.since_close = TRUE], "close", TRUE)

(* MCPServerManager.connect_stdio: the session is created and initialized, or
   initialize() raises (the session stays assigned), or creating it raises *)
ConnectStdio ==
    /\ \E outcome \in {"initialized", "created", "raised"} :
        mcp' = ManagerCall([mcp EXCEPT
                   !.session = IF outcome = "raised" THEN @ ELSE outcome,
                   !.available = IF outcome = "initialized" THEN TRUE ELSE @,
                   !.since_close = FALSE],
                   "connect_stdio", outcome = "initialized")
    /\ UNCHANGED <<agent, builderVars, adapterVars, scroll, compiled, poolVars, raceVars,
                   manager, registry>>

(* MCPServerManager.connect_sse *)
ConnectSSE ==
    /\ mcp' = ManagerCall([mcp EXCEPT !.available = TRUE, !.since_close = FALSE],
                          "connect_sse", TRUE)
    /\ UNCHANGED <<agent, builderVars, adapterVars, scroll, compiled, poolVars, raceVars,
                   manager, registry>>

(* MCPServerManager.close *)
CloseManager ==
    /\ mcp.op # ""
    /\ mcp' = CloseServer(mcp)
    /\ UNCHANGED <<agent, builderVars, adapterVars, scroll, compiled, poolVars, raceVars,
                   manager, registry>>

\* The messages of the ServiceResult of execute_tool
ToolNotFound == "Tool not found"
ToolExecutionFailed == "Tool execution failed"

\* The tool names of the callers
ToolNames == {"search", "stat"}

(* MCPServiceImplementation.register_tool_handler *)
RegisterToolHandler ==
    /\ \E tool_name \in ToolNames :
        mcp' = [ManagerCall(mcp, "register_tool_handler", TRUE) EXCEPT
                    !.tool_handlers = @ \cup {tool_name}, !.tool_name = tool_name]
    /\ UNCHANGED <<agent, builderVars, adapterVars, scroll, compiled, poolVars, raceVars,
                   manager, registry>>

\* MCPServiceImplementation.execute_tool (ok: the handler, or session.call_tool,
\* does not raise)
ExecuteToolCall(m, tool_name, ok) ==
    LET local == tool_name \in m.tool_handlers
        r == [m EXCEPT !.op = "execute_tool", !.tool_name = tool_name, !.local = local,
                       !.server_call = FALSE]
    IN
    IF local
    THEN [r EXCEPT !.success = ok, !.message = IF ok THEN "Success" ELSE ToolExecutionFailed]
    ELSE IF m.available
    THEN IF m.session = "None"
         THEN [r EXCEPT !.success = FALSE, !.message = ToolExecutionFailed,
                        !.server_call = TRUE]
         ELSE [r EXCEPT !.success = ok, !.server_call = TRUE,
                        !.message = IF ok THEN "Success" ELSE ToolExecutionFailed]
    ELSE [r EXCEPT !.success = FALSE, !.message = ToolNotFound]

(* MCPServiceImplementation.execute_tool *)
ExecuteTool ==
    /\ mcp.op # ""
    /\ \E tool_name \in ToolNames, ok \in BOOLEAN :
        mcp' = ExecuteToolCall(mcp, tool_name, ok)
    /\ UNCHANGED <<agent, builderVars, adapterVars, scroll, compiled, poolVars, raceVars,
                   manager, registry>>

InitMCP ==
    /\ filters = <<>>
    /\ params = <<>>
    /\ sorts = <<>>
    /\ pagination = NoPagination
    /\ built = NotBuilt
    /\ pool = "None"
    /\ client = "None"
    /\ call = NoCall
    /\ scroll = NoScroll
    /\ compiled = NotCompiled
    /\ tasks = NoTasks
    /\ pool_used = 0
    /\ table = {}
    /\ search = NoSearch
    /\ manager = NewManager(FALSE, FALSE)
    /\ registry = NewRegistry("")
    /\ \E finally_scope \in FinallyScopes : mcp = NewServerManager(finally_scope)
    /\ agent = NewAgent

NextMCP ==
    \/ ConnectStdio
    \/ ConnectSSE
    \/ CloseManager
    \/ RegisterToolHandler
    \/ ExecuteTool

SpecMCP == InitMCP /\ [][NextMCP]_vars

---------------------------------------------------------------------------
(* Claims about the MCP server manager *)

\* C29: after MCPServerManager.close() has returned the manager is
\* disconnected (session None, available False), whatever connect_stdio /
\* connect_sse calls came before; execute_tool for a name without a local
\* handler then reports the tool as not found and attempts no server call.
C29_CloseDisconnects ==
    /\ mcp.op = "close" =>
        /\ mcp.session = "None"
        /\ ~mcp.available
    /\ (mcp.op = "execute_tool" /\ mcp.since_close /\ ~mcp.local) =>
        /\ mcp.message = "Tool not found"
        /\ ~mcp.server_call

---------------------------------------------------------------------------
(* BaseAgent.memory and ToolAgent.tool_history (agent/base.py) *)

\* max_memory of add_to_memory, max_history of add_tool_call
max_memory == 50
max_history == 20

\* The Python slice list[-k:] for k >= 0: -0 is 0, so list[-0:] is the whole list
LastSlice(list, k) ==
    IF k = 0 \/ k >= Len(list) THEN list
    ELSE SubSeq(list, Len(list) - k + 1, Len(list))

\* append, then list = list[-limit:] when the list is longer than limit
AppendBounded(list, item, limit) ==
    LET longer == Append(list, item) IN
    IF Len(longer) > limit THEN LastSlice(longer, limit) ELSE longer

\* self.memory[-max_messages:] if self.memory else []
RecentOf(list, k) == IF Len(list) > 0 THEN LastSlice(list, k) ELSE <<>>

\* The max_messages / max_calls the callers pass (10 is the default)
ContextSizes == {0, 1, 10, 60}

(* BaseAgent.add_to_memory *)
AddToMemory ==
    /\ agent.added < MaxMessages
    /\ agent' = [agent EXCEPT !.added = @ + 1,
                              !.memory = AppendBounded(@, agent.added + 1, max_memory),
                              !.op = "add_to_memory", !.k = 0, !.result = <<>>]
    /\ UNCHANGED <<builderVars, adapterVars, scroll, compiled, poolVars, raceVars,
                   manager, registry, mcp>>

(* BaseAgent.get_memory_context *)
GetMemoryContext ==
    /\ \E max_messages \in ContextSizes :
        agent' = [agent EXCEPT !.op = "get_memory_context", !.k = max_messages,
                                !.result = RecentOf(agent.memory, max_messages)]
    /\ UNCHANGED <<builderVars, adapterVars, scroll, compiled, poolVars, raceVars,
                   manager, registry, mcp>>

(* ToolAgent.add_tool_call *)
AddToolCall ==
    /\ agent.called < MaxToolCalls
    /\ agent' = [agent EXCEPT !.called = @ + 1,
                              !.tool_history = AppendBounded(@, agent.called + 1, max_history),
                              !.op = "add_tool_call", !.k = 0, !.result = <<>>]
    /\ UNCHANGED <<builderVars, adapterVars, scroll, compiled, poolVars, raceVars,
                   manager, registry, mcp>>

(* ToolAgent.get_tool_history *)
GetToolHistory ==
    /\ \E max_calls \in ContextSizes :
        agent' = [agent EXCEPT !.op = "get_tool_history", !.k = max_calls,
                                !.result = RecentOf(agent.tool_history, max_calls)]
    /\ UNCHANGED <<builderVars, adapterVars, scroll, compiled, poolVars, raceVars,
                   manager, registry, mcp>>

InitAgent ==
    /\ filters = <<>>
    /\ params = <<>>
    /\ sorts = <<>>
    /\ pagination = NoPagination
    /\ built = NotBuilt
    /\ pool = "None"
    /\ client = "None"
    /\ call = NoCall
    /\ scroll = NoScroll
    /\ compiled = NotCompiled
    /\ tasks = NoTasks
    /\ pool_used = 0
    /\ table = {}
    /\ search = NoSearch
    /\ manager = NewManager(FALSE, FALSE)
    /\ registry = NewRegistry("")
    /\ mcp = NewServerManager("")
    /\ agent = NewAgent

NextAgent ==
    \/ AddToMemory
    \/ GetMemoryContext
    \/ AddToolCall
    \/ GetToolHistory

SpecAgent == InitAgent /\ [][NextAgent]_vars

---------------------------------------------------------------------------
(* Claims about the agent's memory *)

\* The list holds the last min(limit, n) of the items 1..n, in the order they
\* were added
HoldsMostRecent(list, n, limit) ==
    /\ Len(list) = (IF n < limit THEN n ELSE limit)
    /\ \A i \in 1..Len(list) : list[i] = n - Len(list) + i

\* The result is the last min(k, Len(list)) items of the list
IsLastOf(result, list, k) ==
    /\ Len(result) = (IF k < Len(list) THEN k ELSE Len(list))
    /\ \A i \in 1..Len(result) : result[i] = list[Len(list) - Len(result) + i]

\* C30: after any sequence of add_to_memory calls the memory holds at most 50
\* messages, the most recently added ones in insertion order, and
\* get_memory_context(k) returns the last min(k, len(memory)) of them for every
\* k >= 0; the tool-call history obeys the same rule with bound 20.
C30_MemoryBoundedAndRecent ==
    /\ HoldsMostRecent(agent.memory, agent.added, 50)
    /\ HoldsMostRecent(agent.tool_history, agent.called, 20)
    /\ agent.op = "get_memory_context" => IsLastOf(agent.result, agent.memory, agent.k)
    /\ agent.op = "get_tool_history" => IsLastOf(agent.result, agent.tool_history, agent.k)

\* The bound of C30 alone holds: both lists keep the most recent items
ListsBoundedAndRecent ==
    /\ HoldsMostRecent(agent.memory, agent.added, 50)
    /\ HoldsMostRecent(agent.tool_history, agent.called, 20)
    /\ (agent.op \in {"get_memory_context", "get_tool_history"} /\ agent.k > 0) =>
        IsLastOf(agent.result,
                 IF agent.op = "get_memory_context" THEN agent.memory ELSE agent.tool_history,
                 agent.k)

====
